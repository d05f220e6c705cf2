---------------------------- MODULE MacSyncProofs ----------------------------
(***************************************************************************)
(* Proofs about MacSync, for every set of users, hosts, files and          *)
(* invocations, every folder hierarchy, editor and fault, and every bound. *)
(***************************************************************************)
EXTENDS MacSync, SequenceTheorems, FiniteSetTheorems, TLAPS

\* The assumptions that the components make on their constants.
USE WorkspaceAssumption, FsClientAssumption, MacServerAssumption,
    MacSyncAssumption, FixedAssumption

-----------------------------------------------------------------------------
(* The inductive invariant.                                                *)

\* A call that waits for an rsync is the call of some item's callback.
CallsInv ==
  \A k \in DOMAIN frames :
    frames[k].kind = "rsync" => frames[k].item \in Invocations

\* A request is in one place at a time, and an editor is launched for an
\* invocation by its "path" message alone.
TalkInv ==
  \A c \in Invocations :
    /\ fs[c] \notin Waiting
         => sent[c] = "none" /\ inbox[c] = "none" /\ c \notin reply
    /\ fs[c] \in Waiting => sent[c] \in {fs[c], "none"}
                            /\ inbox[c] \in {fs[c], "none"}
    /\ sent[c] # "none" => inbox[c] = "none" /\ c \notin reply
    /\ inbox[c] # "none" => c \notin reply
    /\ fs[c] \notin {"path", "done"} => editor[c] = "none"
    /\ fs[c] = "path" /\ (sent[c] # "none" \/ inbox[c] # "none")
         => editor[c] = "none"
    /\ fs[c] = "path" /\ c \in reply => editor[c] # "none"

\* The menu, its streams and the calls of their callbacks.
MenuInv ==
  /\ Items = streams
  /\ \A j, k \in DOMAIN menu : menu[j] = menu[k] => j = k
  /\ UniqueWatch
  /\ \A i \in streams : editor[i] # "none"
  /\ \A k \in DOMAIN frames :
       frames[k].kind = "rsync" => editor[frames[k].item] # "none"

\* How many of the first m selectors in q are sel.
Among(q, sel, m) == Cardinality({k \in 1 .. m : q[k].sel = sel})

Total(q, sel) == Among(q, sel, Len(q))

\* The selector that the program does not have is not in q.
NoLaunchAlert(q) == \A k \in DOMAIN q : q[k].sel # "launchAlert"

\* No stop that is performed finds the counter at zero.
NeverClamped(q, n) ==
  \A m \in 0 .. Len(q) : Among(q, "stop", m) <= n + Among(q, "start", m)

CountInv ==
  /\ spinning <=> n_rsyncs > 0
  /\ NoException =>
       /\ NoLaunchAlert(queue)
       /\ n_rsyncs + Queued("start") = WaitingCalls("rsync") + Queued("stop")
       /\ NeverClamped(queue, n_rsyncs)

\* What the rsync of a call has read is the copy, unless there are events that
\* tell of another.
Fresh ==
  \A k \in DOMAIN frames :
    LET i == frames[k].item IN
    Read(frames[k]) /\ i \in streams \ dirty
      => frames[k].snap = mirror[Fn(i)]

OrderInv == ~Reentrant => Fresh

SyncInv == TypeOK /\ CallsInv /\ TalkInv /\ MenuInv /\ CountInv /\ OrderInv

-----------------------------------------------------------------------------
(* Sequences: what is taken away, and how many are left.                   *)

\* Front and Last take a nonempty sequence apart.
LEMMA FrontProperties ==
  ASSUME NEW S, NEW s \in Seq(S), s # <<>>
  PROVE  /\ Front(s) \in Seq(S) /\ Last(s) \in S
         /\ Len(s) \in Nat \ {0} /\ Last(s) = s[Len(s)]
         /\ DOMAIN s = 1 .. Len(s) /\ DOMAIN Front(s) = 1 .. Len(s) - 1
         /\ \A k \in 1 .. Len(s) - 1 : Front(s)[k] = s[k]
<1>1. Len(s) \in Nat \ {0} /\ DOMAIN s = 1 .. Len(s)
  BY EmptySeq, LenProperties
<1>2. \A k \in 1 .. Len(s) - 1 : s[k] \in S
  BY <1>1, ElementOfSeq
<1>3. /\ SubSeq(s, 1, Len(s) - 1) \in Seq(S)
      /\ Len(SubSeq(s, 1, Len(s) - 1)) = Len(s) - 1
      /\ \A k \in 1 .. Len(s) - 1 : SubSeq(s, 1, Len(s) - 1)[k] = s[k]
  BY <1>1, <1>2, SubSeqProperties
<1>4. s[Len(s)] \in S
  BY <1>1, ElementOfSeq
<1> QED BY <1>1, <1>3, <1>4, LenProperties DEF Front, Last

\* The first part of a sequence.
LEMMA PrefixProperties ==
  ASSUME NEW S, NEW s \in Seq(S), NEW n \in 0 .. Len(s)
  PROVE  /\ SubSeq(s, 1, n) \in Seq(S) /\ DOMAIN SubSeq(s, 1, n) = 1 .. n
         /\ \A k \in 1 .. n : SubSeq(s, 1, n)[k] = s[k]
<1>1. Len(s) \in Nat /\ \A k \in 1 .. n : s[k] \in S
  BY LenProperties, ElementOfSeq
<1>2. /\ SubSeq(s, 1, n) \in Seq(S) /\ Len(SubSeq(s, 1, n)) = n
      /\ \A k \in 1 .. n : SubSeq(s, 1, n)[k] = s[k]
  BY <1>1, SubSeqProperties
<1> QED BY <1>2, LenProperties

\* Without one of its elements a sequence of different elements has all the others.
LEMMA RemoveProperties ==
  ASSUME NEW S, NEW s \in Seq(S), NEW n \in DOMAIN s,
         \A j, k \in DOMAIN s : s[j] = s[k] => j = k
  PROVE  /\ RemoveAt(s, n) \in Seq(S)
         /\ ToSet(RemoveAt(s, n)) = ToSet(s) \ {s[n]}
         /\ \A j, k \in DOMAIN RemoveAt(s, n) :
              RemoveAt(s, n)[j] = RemoveAt(s, n)[k] => j = k
<1> DEFINE l == SubSeq(s, 1, n - 1)
           r == SubSeq(s, n + 1, Len(s))
           t == RemoveAt(s, n)
<1>1. Len(s) \in Nat /\ DOMAIN s = 1 .. Len(s) /\ n \in 1 .. Len(s)
  BY LenProperties
<1>2. \A k \in 1 .. Len(s) : s[k] \in S
  BY <1>1, ElementOfSeq
<1>3. /\ l \in Seq(S) /\ Len(l) = n - 1
      /\ \A k \in 1 .. n - 1 : l[k] = s[k]
  <2>1. \A k \in 1 .. n - 1 : s[k] \in S BY <1>1, <1>2
  <2> QED BY <1>1, <2>1, SubSeqProperties
<1>4. /\ r \in Seq(S) /\ Len(r) = Len(s) - n
      /\ \A k \in 1 .. Len(s) - n : r[k] = s[k + n]
  <2>1. \A k \in n + 1 .. Len(s) : s[k] \in S BY <1>1, <1>2
  <2> HIDE DEF r
  <2>2. /\ r \in Seq(S) /\ Len(r) = IF n + 1 <= Len(s) THEN Len(s) - (n + 1) + 1 ELSE 0
        /\ \A k \in 1 .. Len(s) - (n + 1) + 1 : r[k] = s[n + 1 + k - 1]
    BY <1>1, <2>1, SubSeqProperties DEF r
  <2>3. Len(r) = Len(s) - n BY <1>1, <2>2
  <2>4. ASSUME NEW k \in 1 .. Len(s) - n PROVE r[k] = s[k + n]
    <3>1. k \in 1 .. Len(s) - (n + 1) + 1 /\ n + 1 + k - 1 = k + n BY <1>1
    <3> QED BY <2>2, <3>1
  <2> QED BY <2>2, <2>3, <2>4
<1> HIDE DEF l, r
<1>5. /\ t \in Seq(S) /\ Len(t) = Len(s) - 1
      /\ \A k \in 1 .. Len(s) - 1 : t[k] = IF k < n THEN s[k] ELSE s[k + 1]
  <2>1. t = l \o r BY DEF t, l, r, RemoveAt
  <2> HIDE DEF t
  <2>2. /\ t \in Seq(S) /\ Len(t) = Len(l) + Len(r)
        /\ \A k \in 1 .. Len(l) + Len(r) :
             t[k] = IF k <= Len(l) THEN l[k] ELSE r[k - Len(l)]
    <3>1. l \in Seq(S) /\ r \in Seq(S) BY <1>3, <1>4
    <3>2. l \o r \in Seq(S) /\ Len(l \o r) = Len(l) + Len(r)
      BY <3>1, ConcatProperties
    <3>3. \A k \in 1 .. Len(l) + Len(r) :
            (l \o r)[k] = IF k <= Len(l) THEN l[k] ELSE r[k - Len(l)]
      BY <3>1, ConcatProperties
    <3> QED BY <2>1, <3>2, <3>3, Zenon
  <2>3. Len(t) = Len(s) - 1 BY <1>1, <1>3, <1>4, <2>2
  <2>4. ASSUME NEW k \in 1 .. Len(s) - 1
        PROVE  t[k] = IF k < n THEN s[k] ELSE s[k + 1]
    <3>1. k \in 1 .. Len(l) + Len(r) BY <1>1, <1>3, <1>4
    <3>2. CASE k < n
      <4>1. k \in 1 .. n - 1 /\ k <= Len(l) BY <1>1, <1>3, <3>2
      <4> QED BY <1>3, <2>2, <3>1, <3>2, <4>1
    <3>3. CASE ~(k < n)
      <4>1. /\ k - Len(l) \in 1 .. Len(s) - n /\ ~(k <= Len(l))
            /\ k - Len(l) + n = k + 1
        BY <1>1, <1>3, <3>3
      <4> QED BY <1>4, <2>2, <3>1, <3>3, <4>1
    <3> QED BY <3>2, <3>3
  <2> QED BY <2>2, <2>3, <2>4
<1> HIDE DEF t
<1>6. DOMAIN t = 1 .. Len(s) - 1
  BY <1>5, LenProperties
<1>7. ToSet(t) = ToSet(s) \ {s[n]}
  <2>1. ASSUME NEW x \in ToSet(s), x # s[n] PROVE x \in ToSet(t)
    <3>1. PICK k \in 1 .. Len(s) : x = s[k] BY <1>1, <2>1 DEF ToSet
    <3>2. CASE k < n BY <1>1, <1>5, <1>6, <3>1, <3>2 DEF ToSet
    <3>3. CASE k > n
      <4>1. k - 1 \in 1 .. Len(s) - 1 /\ t[k - 1] = s[k]
        BY <1>1, <1>5, <3>1, <3>3
      <4> QED BY <1>6, <3>1, <4>1 DEF ToSet
    <3> QED BY <1>1, <2>1, <3>1, <3>2, <3>3
  <2>2. ASSUME NEW x \in ToSet(t) PROVE x \in ToSet(s) /\ x # s[n]
    <3>1. PICK k \in 1 .. Len(s) - 1 : x = t[k] BY <1>6 DEF ToSet
    <3>2. CASE k < n
      <4>1. k \in 1 .. Len(s) /\ k # n /\ x = s[k] BY <1>1, <1>5, <3>1, <3>2
      <4> QED BY <1>1, <4>1 DEF ToSet
    <3>3. CASE ~(k < n)
      <4>1. k + 1 \in 1 .. Len(s) /\ k + 1 # n /\ x = s[k + 1]
        BY <1>1, <1>5, <3>1, <3>3
      <4> QED BY <1>1, <4>1 DEF ToSet
    <3> QED BY <3>2, <3>3
  <2> QED BY <2>1, <2>2
<1>8. \A j, k \in DOMAIN t : t[j] = t[k] => j = k
  <2> SUFFICES ASSUME NEW j \in 1 .. Len(s) - 1, NEW k \in 1 .. Len(s) - 1,
                      t[j] = t[k]
               PROVE  j = k
    BY <1>6
  <2>1. /\ j \in 1 .. Len(s) /\ j + 1 \in 1 .. Len(s)
        /\ k \in 1 .. Len(s) /\ k + 1 \in 1 .. Len(s)
    BY <1>1
  <2>2. CASE j < n /\ k < n BY <1>1, <1>5, <2>1, <2>2
  <2>3. CASE j < n /\ ~(k < n)
    <3>1. s[j] = s[k + 1] BY <1>5, <2>3
    <3> QED BY <1>1, <2>1, <2>3, <3>1
  <2>4. CASE ~(j < n) /\ k < n
    <3>1. s[j + 1] = s[k] BY <1>5, <2>4
    <3> QED BY <1>1, <2>1, <2>4, <3>1
  <2>5. CASE ~(j < n) /\ ~(k < n)
    <3>1. s[j + 1] = s[k + 1] BY <1>5, <2>5
    <3>2. j + 1 = k + 1 BY <1>1, <2>1, <3>1
    <3> QED BY <3>2
  <2> QED BY <2>2, <2>3, <2>4, <2>5
<1> QED BY <1>5, <1>7, <1>8 DEF t

\* How many of the numbers from 1 to m are in I.
Upto(I, m) == Cardinality({k \in 1 .. m : k \in I})

\* The elements of 1 .. m that are in I, and of 1 .. m + 1.
LEMMA CountStep ==
  ASSUME NEW I, NEW m \in Nat
  PROVE  /\ Upto(I, m) \in Nat
         /\ Upto(I, m + 1) = Upto(I, m) + IF m + 1 \in I THEN 1 ELSE 0
<1> USE DEF Upto
<1> DEFINE A == {k \in 1 .. m : k \in I}
<1>1. IsFiniteSet(A) /\ Cardinality(A) \in Nat
  <2>1. A \in SUBSET (1 .. m) /\ 1 \in Int /\ m \in Int OBVIOUS
  <2>2. IsFiniteSet(1 .. m) BY <2>1, FS_Interval
  <2> HIDE DEF A
  <2>3. IsFiniteSet(A) BY <2>1, <2>2, FS_Subset
  <2> QED BY <2>3, FS_CardinalityType
<1>2. CASE m + 1 \in I
  <2>1. {k \in 1 .. m + 1 : k \in I} = A \cup {m + 1} BY <1>2
  <2>2. m + 1 \notin A OBVIOUS
  <2> HIDE DEF A
  <2> QED BY <1>1, <1>2, <2>1, <2>2, FS_AddElement DEF A
<1>3. CASE m + 1 \notin I
  <2>1. {k \in 1 .. m + 1 : k \in I} = A BY <1>3
  <2> QED BY <1>1, <1>3, <2>1
<1> QED BY <1>1, <1>2, <1>3

\* The same set, counted from its second place.
LEMMA CountShift ==
  ASSUME NEW I, NEW m \in Nat
  PROVE  Upto(I, m + 1) = Cardinality({k \in 1 .. m : k + 1 \in I})
                            + IF 1 \in I THEN 1 ELSE 0
<1> USE DEF Upto
<1> DEFINE A == {k \in 1 .. m : k + 1 \in I}
           B == {k \in 2 .. m + 1 : k \in I}
           f == [k \in A |-> k + 1]
<1>1. IsFiniteSet(A) /\ Cardinality(A) \in Nat
  <2>1. A \in SUBSET (1 .. m) /\ 1 \in Int /\ m \in Int OBVIOUS
  <2>2. IsFiniteSet(1 .. m) BY <2>1, FS_Interval
  <2> HIDE DEF A
  <2>3. IsFiniteSet(A) BY <2>1, <2>2, FS_Subset
  <2> QED BY <2>3, FS_CardinalityType
<1>2. f \in Bijection(A, B)
  <2>1. f \in [A -> B] OBVIOUS
  <2>2. \A j, k \in A : f[j] = f[k] => j = k OBVIOUS
  <2>3. \A b \in B : \E a \in A : f[a] = b
    <3>1. ASSUME NEW b \in B PROVE b - 1 \in A /\ f[b - 1] = b OBVIOUS
    <3> QED BY <3>1
  <2> QED BY <2>1, <2>2, <2>3
       DEF Bijection, Injection, Surjection, IsInjective
<1>3. IsFiniteSet(B) /\ Cardinality(B) = Cardinality(A)
  BY <1>1, <1>2, FS_Bijection DEF ExistsBijection
<1>4. CASE 1 \in I
  <2>1. {k \in 1 .. m + 1 : k \in I} = B \cup {1} BY <1>4
  <2>2. 1 \notin B OBVIOUS
  <2> HIDE DEF A, B, f
  <2>3. Cardinality(B \cup {1}) = Cardinality(B) + 1
    BY <1>3, <2>2, FS_AddElement
  <2> QED BY <1>3, <1>4, <2>1, <2>3 DEF A
<1>5. CASE 1 \notin I
  <2>1. {k \in 1 .. m + 1 : k \in I} = B BY <1>5
  <2> QED BY <1>1, <1>3, <1>5, <2>1
<1> QED BY <1>4, <1>5

-----------------------------------------------------------------------------
(* Steps.                                                                  *)

\* Next, taken apart by who moves.
LEMMA NextCases ==
  Next =>
    \/ \E c \in Invocations :
         (Start(c) \/ PushRead(c) \/ PushFail(c) \/ RecvOK(c)) /\ UNCHANGED macVars
    \/ \E c \in Invocations : PushWriteSeen(c)
    \/ \E c \in Invocations :
         /\ \/ poll(c, fs[c] \in Over) \/ Deliver(c) \/ launchEditor(c)
            \/ EditorFails(c) \/ callback(c) \/ ClickItem(c)
         /\ UNCHANGED clientVars
    \/ /\ callbackReturns \/ Serve \/ Dismiss \/ ClickQuit \/ Reboot \/ Launch
       /\ UNCHANGED clientVars
    \/ \E k \in DOMAIN frames :
         /\ RsyncReads(k) \/ RsyncWrites(k) \/ RsyncFails(k)
         /\ UNCHANGED clientVars
    \/ \E o \in orphans : Orphan(o) /\ UNCHANGED clientVars
    \/ \E fn \in Fns : Save(fn) \/ Delete(fn)
    \/ \E d \in Docs : RemoteEdit(d)
<1> SUFFICES ASSUME Next PROVE NextCases!2
  OBVIOUS
<1>1. CASE \E c \in Invocations : ClientWorks(c)
  BY <1>1 DEF ClientWorks
<1>2. CASE \E c \in Invocations : Stream(c) \/ Background(c) \/ EditorExits(c)
  BY <1>2 DEF Stream, Background, EditorExits
<1>3. CASE Timer
  BY <1>3 DEF Timer
<1>4. CASE MainThread \/ UserDismisses
  BY <1>4 DEF MainThread, UserDismisses
<1>5. CASE Rsync
  BY <1>5 DEF Rsync
<1>6. CASE UserActs
  <2>1. CASE \E c \in Invocations : Start(c) /\ UNCHANGED macVars BY <2>1
  <2>2. CASE \E c \in Invocations : ClickItem(c) /\ UNCHANGED clientVars BY <2>2
  <2>3. CASE (ClickQuit \/ Reboot \/ Launch) /\ UNCHANGED clientVars BY <2>3
  <2>4. CASE \E fn \in Fns : Save(fn) \/ Delete(fn) BY <2>4
  <2>5. CASE \E d \in Docs : RemoteEdit(d) BY <2>5
  <2> QED BY <1>6, <2>1, <2>2, <2>3, <2>4, <2>5 DEF UserActs
<1> QED BY <1>1, <1>2, <1>3, <1>4, <1>5, <1>6 DEF Next

\* Invocations, files and folders.
LEMMA TargetFacts ==
  \A c \in Invocations : /\ Target[c] \in Docs
                         /\ Fn(c) \in Fns
                         /\ DirName(Fn(c)) \in Dirs
                         /\ c # Nil
  BY SMT DEF Fn, ServerFn, DirName, Docs, Fns, Dirs

\* A document nobody has edited has a content.
LEMMA BlankType == \A d \in Docs : Blank(d) \in Contents
  BY DEF Blank, Contents

\* The entries the menu has from the beginning are different, and "Quit" is
\* one.
LEMMA FixedFacts ==
  /\ Fixed \in Seq(Invocations \cup ToSet(Fixed))
  /\ \A j, k \in DOMAIN Fixed : Fixed[j] = Fixed[k] => j = k
  /\ "Quit" \in ToSet(Fixed)
<1>1. DOMAIN Fixed = 1 .. 4
  BY DEF Fixed
<1>2. Fixed \in Seq(ToSet(Fixed))
  BY <1>1 DEF Fixed, ToSet
<1>3. \A j, k \in 1 .. 4 : Fixed[j] = Fixed[k] => j = k
  BY DEF Fixed
<1>4. Fixed[4] = "Quit"
  BY DEF Fixed
<1> HIDE DEF Fixed
<1>5. Fixed \in Seq(Invocations \cup ToSet(Fixed))
  BY <1>2, SeqMonotonic
<1> QED BY <1>1, <1>3, <1>4, <1>5 DEF ToSet

\* A call that begins to wait, as the last frame.
LEMMA FrameAdded ==
  ASSUME frames \in Seq(Frames), NEW kind \in {"rsync", "alert", "fatal"},
         NEW i \in Invocations \cup {Nil}
  PROVE  /\ Append(frames, Frame(kind, i)) \in Seq(Frames)
         /\ Len(frames) \in Nat /\ DOMAIN frames = 1 .. Len(frames)
         /\ DOMAIN Append(frames, Frame(kind, i)) = 1 .. Len(frames) + 1
         /\ \A k \in DOMAIN frames :
              Append(frames, Frame(kind, i))[k] = frames[k]
         /\ Append(frames, Frame(kind, i))[Len(frames) + 1] = Frame(kind, i)
  BY AppendProperties, LenProperties DEF Frames, Frame

\* A frame whose rsync reads, writes or fails: only its snap and exit change.
LEMMA RsyncFrame ==
  ASSUME frames \in Seq(Frames), mirror \in [Fns -> Contents \cup {Nil}],
         CallsInv, NEW k \in DOMAIN frames,
         RsyncReads(k) \/ RsyncWrites(k) \/ RsyncFails(k)
  PROVE  /\ frames' \in Seq(Frames) /\ DOMAIN frames' = DOMAIN frames
         /\ \A j \in DOMAIN frames : /\ frames'[j].kind = frames[j].kind
                                     /\ frames'[j].item = frames[j].item
                                     /\ j # k => frames'[j] = frames[j]
         /\ frames[k].kind = "rsync" /\ frames[k].exit = "no"
         /\ frames[k].item \in Invocations
         /\ RsyncReads(k) => /\ frames'[k].snap = mirror[Fn(frames[k].item)]
                             /\ frames'[k].exit = "no"
         /\ RsyncWrites(k) => frames'[k].exit = "ok"
         /\ RsyncFails(k) => frames'[k].exit = "failed"
<1>1. /\ frames[k] \in Frames /\ frames[k].kind = "rsync"
      /\ frames[k].exit = "no" /\ frames[k].item \in Invocations
  BY LenProperties, ElementOfSeq
  DEF CallsInv, RsyncReads, RsyncWrites, RsyncFails, Unread, Read
<1>2. mirror[Fn(frames[k].item)] \in Contents \cup {Nil}
  BY <1>1, TargetFacts
<1>3. Nil \in Contents \cup {Nil}
  OBVIOUS
<1>4. ASSUME NEW f \in Frames, frames' = [frames EXCEPT ![k] = f]
      PROVE  /\ frames' \in Seq(Frames) /\ DOMAIN frames' = DOMAIN frames
             /\ frames'[k] = f
             /\ \A j \in DOMAIN frames : j # k => frames'[j] = frames[j]
  BY <1>4, LenProperties, ExceptSeq
<1>5. CASE RsyncReads(k)
  <2> DEFINE f == [frames[k] EXCEPT !.snap = mirror[Fn(frames[k].item)]]
  <2>1. frames' = [frames EXCEPT ![k] = f]
    BY <1>5 DEF RsyncReads
  <2>2. /\ f \in Frames /\ f.kind = "rsync" /\ f.item = frames[k].item
        /\ f.exit = "no" /\ f.snap = mirror[Fn(frames[k].item)]
    BY <1>1, <1>2 DEF Frames
  <2>3. ~RsyncWrites(k) /\ ~RsyncFails(k)
    <3>1. frames'[k].exit = "no" BY <1>1, <1>4, <2>1, <2>2
    <3>2. ASSUME NEW e, frames' = [frames EXCEPT ![k].snap = Nil, ![k].exit = e]
          PROVE  frames'[k].exit = e
      <4>1. frames' = [frames EXCEPT ![k] = [frames[k] EXCEPT !.snap = Nil, !.exit = e]]
        BY <3>2
      <4> QED BY <1>1, <4>1, LenProperties DEF Frames
    <3> QED BY <3>1, <3>2 DEF RsyncWrites, RsyncFails
  <2> HIDE DEF f
  <2> QED BY <1>1, <1>4, <2>1, <2>2, <2>3
<1>6. ASSUME NEW e \in {"ok", "failed"},
             frames' = [frames EXCEPT ![k].snap = Nil, ![k].exit = e]
      PROVE  /\ frames' \in Seq(Frames) /\ DOMAIN frames' = DOMAIN frames
             /\ \A j \in DOMAIN frames : /\ frames'[j].kind = frames[j].kind
                                         /\ frames'[j].item = frames[j].item
                                         /\ j # k => frames'[j] = frames[j]
             /\ frames'[k].exit = e
  <2> DEFINE f == [frames[k] EXCEPT !.snap = Nil, !.exit = e]
  <2>1. frames' = [frames EXCEPT ![k] = f]
    BY <1>6
  <2>2. f \in Frames /\ f.kind = "rsync" /\ f.item = frames[k].item /\ f.exit = e
    BY <1>1, <1>3 DEF Frames
  <2> HIDE DEF f
  <2> QED BY <1>1, <1>4, <2>1, <2>2
<1>7. RsyncWrites(k) => ~RsyncFails(k) /\ ~RsyncReads(k)
  <2> SUFFICES ASSUME RsyncWrites(k) PROVE ~RsyncFails(k) /\ ~RsyncReads(k)
    OBVIOUS
  <2>1. frames'[k].exit = "ok" BY <1>6 DEF RsyncWrites
  <2>2. ~RsyncFails(k)
    <3>1. RsyncFails(k) => frames'[k].exit = "failed" BY <1>6 DEF RsyncFails
    <3> QED BY <2>1, <3>1
  <2> QED BY <2>2 DEF RsyncReads, RsyncWrites, Unread, Read
<1>8. CASE RsyncWrites(k)
  BY <1>1, <1>6, <1>7, <1>8 DEF RsyncWrites
<1>9. CASE RsyncFails(k)
  <2>1. ~RsyncReads(k) BY <1>5, <1>9
  <2> QED BY <1>1, <1>6, <1>7, <1>9, <2>1 DEF RsyncFails
<1> QED BY <1>5, <1>8, <1>9

\* Exceptions and Front leave a first part of the calls.
LEMMA Unwound ==
  ASSUME frames \in Seq(Frames), Unwind
  PROVE  \E keep \in 0 .. Len(frames) :
           /\ frames' = SubSeq(frames, 1, keep)
           /\ frames' \in Seq(Frames) /\ DOMAIN frames' = 1 .. keep
           /\ DOMAIN frames' \subseteq DOMAIN frames
           /\ \A k \in DOMAIN frames' : frames'[k] = frames[k]
           /\ orphans' = orphans \cup
                           Running(SubSeq(frames, keep + 1, Len(frames)))
<1>1. PICK keep \in 0 .. Len(frames) :
        /\ frames' = SubSeq(frames, 1, keep)
        /\ orphans' = orphans \cup Running(SubSeq(frames, keep + 1, Len(frames)))
  BY DEF Unwind
<1>2. /\ frames' \in Seq(Frames) /\ DOMAIN frames' = 1 .. keep
      /\ \A k \in 1 .. keep : frames'[k] = frames[k]
  BY <1>1, PrefixProperties
<1>3. 1 .. keep \subseteq DOMAIN frames
  BY LenProperties
<1> QED BY <1>1, <1>2, <1>3

Orphans == [item : Invocations, snap : Contents \cup {Nil}]

\* The rsyncs of calls are rsyncs of items.
LEMMA RunningType ==
  ASSUME NEW s \in Seq(Frames),
         \A k \in DOMAIN s : s[k].kind = "rsync" => s[k].item \in Invocations
  PROVE  Running(s) \subseteq Orphans
<1> SUFFICES ASSUME NEW o \in Running(s) PROVE o \in Orphans
  OBVIOUS
<1>1. PICK f \in ToSet(s) : /\ f.kind = "rsync"
                            /\ o = [item |-> f.item, snap |-> f.snap]
  BY DEF Running
<1>2. PICK k \in DOMAIN s : f = s[k]
  BY DEF ToSet
<1>3. f \in Frames
  BY <1>2, LenProperties, ElementOfSeq
<1> QED BY <1>1, <1>2, <1>3 DEF Frames, Orphans

\* Those whose call an exception unwinds go on as such.
LEMMA UnwoundOrphans ==
  ASSUME frames \in Seq(Frames), CallsInv, orphans \subseteq Orphans, Unwind
  PROVE  orphans' \subseteq Orphans
<1>1. PICK keep \in 0 .. Len(frames) :
        orphans' = orphans \cup Running(SubSeq(frames, keep + 1, Len(frames)))
  BY DEF Unwind
<1> DEFINE s == SubSeq(frames, keep + 1, Len(frames))
<1>2. Len(frames) \in Nat /\ DOMAIN frames = 1 .. Len(frames)
  BY LenProperties
<1>3. \A k \in keep + 1 .. Len(frames) : frames[k] \in Frames
  BY <1>2, ElementOfSeq
<1>4. /\ s \in Seq(Frames)
      /\ Len(s) = IF keep + 1 <= Len(frames) THEN Len(frames) - (keep + 1) + 1
                  ELSE 0
      /\ \A k \in 1 .. Len(frames) - (keep + 1) + 1 :
           s[k] = frames[keep + 1 + k - 1]
  BY <1>2, <1>3, SubSeqProperties
<1> HIDE DEF s
<1>5. DOMAIN s = 1 .. Len(s)
  BY <1>4, LenProperties
<1>6. ASSUME NEW k \in DOMAIN s, s[k].kind = "rsync"
      PROVE  s[k].item \in Invocations
  <2>1. /\ k \in 1 .. Len(frames) - (keep + 1) + 1
        /\ keep + 1 + k - 1 \in DOMAIN frames
    <3>1. k \in Nat /\ 1 <= k /\ k <= Len(s) BY <1>4, <1>5
    <3>2. CASE keep + 1 <= Len(frames)
      <4>1. Len(s) = Len(frames) - (keep + 1) + 1 BY <1>4, <3>2
      <4> QED BY <1>2, <3>1, <4>1
    <3>3. CASE ~(keep + 1 <= Len(frames))
      <4>1. Len(s) = 0 BY <1>4, <3>3
      <4> QED BY <3>1, <4>1
    <3> QED BY <3>2, <3>3
  <2>2. s[k] = frames[keep + 1 + k - 1]
    BY <1>4, <2>1
  <2> QED BY <1>6, <2>1, <2>2 DEF CallsInv
<1>7. Running(s) \subseteq Orphans
  BY <1>4, <1>6, RunningType
<1> QED BY <1>1, <1>7 DEF s

-----------------------------------------------------------------------------
(* Types.                                                                  *)

\* The state that awakeFromNib leaves.
LEMMA TypeInit == Init => TypeOK /\ CallsInv
<1>1. <<>> \in Seq(Frames) /\ <<>> \in Seq([sel : Selectors, item : Invocations])
  BY EmptySeq
<1>2. Fixed \in Seq(Invocations \cup ToSet(Fixed))
  BY FixedFacts
<1> SUFFICES ASSUME Init PROVE TypeOK /\ CallsInv
  OBVIOUS
<1>3. WorkspaceTypeOK
  BY BlankType DEF Init, WorkspaceInit, WorkspaceTypeOK, Requests
<1>4. FsClientTypeOK
  BY DEF Init, FsClientInit, FsClientTypeOK, Places
<1>5. MacServerTypeOK
  BY <1>1, <1>2 DEF Init, MacServerInit, MacServerTypeOK
<1>6. CallsInv
  BY DEF Init, MacServerInit, CallsInv
<1> QED BY <1>3, <1>4, <1>5, <1>6 DEF TypeOK

\* A selector that is performed later is one the program performs.
LEMMA PerformType ==
  ASSUME queue \in Seq([sel : Selectors, item : Invocations]),
         NEW sel \in Selectors, NEW i \in Invocations
  PROVE  Perform(sel, i) \in Seq([sel : Selectors, item : Invocations])
  BY AppendProperties DEF Perform

\* One call more that waits.
LEMMA AddedCall ==
  ASSUME frames \in Seq(Frames), CallsInv,
         NEW kind \in {"rsync", "alert", "fatal"},
         NEW i \in Invocations \cup {Nil},
         kind = "rsync" => i \in Invocations,
         frames' = Append(frames, Frame(kind, i))
  PROVE  frames' \in Seq(Frames) /\ CallsInv'
<1>1. ASSUME NEW k \in DOMAIN frames', frames'[k].kind = "rsync"
      PROVE  frames'[k].item \in Invocations
  <2>1. CASE k \in DOMAIN frames BY <1>1, <2>1, FrameAdded DEF CallsInv
  <2>2. CASE k = Len(frames) + 1 BY <1>1, <2>2, FrameAdded DEF Frame
  <2> QED BY <2>1, <2>2, FrameAdded
<1> QED BY <1>1, FrameAdded DEF CallsInv

\* No new calls: every frame is one that was there, with its item.
LEMMA FewerCalls ==
  ASSUME CallsInv, DOMAIN frames' \subseteq DOMAIN frames,
         \A k \in DOMAIN frames' : /\ frames'[k].kind = frames[k].kind
                                   /\ frames'[k].item = frames[k].item
  PROVE  CallsInv'
  BY DEF CallsInv

\* The end of the process.
LEMMA StopType ==
  ASSUME TypeOK, NEW left \in SUBSET Orphans, Stop(left)
  PROVE  /\ MacServerTypeOK' <=> editing' \subseteq Fns /\ mishaps' \in Nat
         /\ CallsInv'
         /\ inbox' \in [Invocations -> Requests \cup {"none"}]
         /\ reply' \subseteq Invocations
<1>1. <<>> \in Seq(Frames) /\ <<>> \in Seq([sel : Selectors, item : Invocations])
  BY EmptySeq
<1>2. Fixed \in Seq(Invocations \cup ToSet(Fixed))
  BY FixedFacts
<1>3. editor' \in [Invocations -> {"none", "launching", "opened", "missing",
                                   "failed", "lost"}]
  BY DEF Stop, TypeOK, MacServerTypeOK
<1>4. reply' \subseteq Invocations /\ inbox' \in [Invocations -> Requests \cup {"none"}]
  BY DEF Stop, TypeOK, WorkspaceTypeOK
<1>5. frames' = <<>> /\ queue' = <<>> /\ menu' = Fixed
  BY DEF Stop
<1>6. CallsInv'
  BY <1>5 DEF CallsInv
<1> QED BY <1>1, <1>2, <1>3, <1>4, <1>5, <1>6
  DEF Stop, Held, MacServerTypeOK, Orphans, TypeOK, WorkspaceTypeOK

\* removeMenuItem takes one entry out of the menu, its stream and its events.
LEMMA Removed ==
  ASSUME TypeOK, MenuInv, NEW e \in ToSet(menu), removeMenuItem(e)
  PROVE  /\ menu' \in Seq(Invocations \cup ToSet(Fixed))
         /\ ToSet(menu') = ToSet(menu) \ {e}
         /\ \A j, k \in DOMAIN menu' : menu'[j] = menu'[k] => j = k
         /\ streams' = streams \ {e} /\ dirty' = dirty \ {e}
         /\ hidden' \in BOOLEAN
<1> DEFINE n == CHOOSE k \in DOMAIN menu : menu[k] = e
<1>1. n \in DOMAIN menu /\ menu[n] = e
  BY DEF ToSet
<1>2. menu' = RemoveAt(menu, n)
  BY DEF removeMenuItem, Without
<1>3. menu \in Seq(Invocations \cup ToSet(Fixed))
  BY DEF TypeOK, MacServerTypeOK
<1>4. \A j, k \in DOMAIN menu : menu[j] = menu[k] => j = k
  BY DEF MenuInv
<1> HIDE DEF n
<1>5. /\ menu' \in Seq(Invocations \cup ToSet(Fixed))
      /\ ToSet(menu') = ToSet(menu) \ {e}
      /\ \A j, k \in DOMAIN menu' : menu'[j] = menu'[k] => j = k
  BY <1>1, <1>2, <1>3, <1>4, RemoveProperties
<1>6. hidden' \in BOOLEAN
  BY DEF removeMenuItem
<1> QED BY <1>5, <1>6 DEF removeMenuItem

\* The steps of fs.
LEMMA ClientType ==
  ASSUME TypeOK, CallsInv, NEW c \in Invocations,
         \/ (Start(c) \/ PushRead(c) \/ PushFail(c) \/ RecvOK(c)) /\ UNCHANGED macVars
         \/ PushWriteSeen(c)
  PROVE  TypeOK' /\ CallsInv'
<1>1. WorkspaceTypeOK' /\ FsClientTypeOK'
  <2> USE TargetFacts, BlankType
      DEF TypeOK, WorkspaceTypeOK, FsClientTypeOK, Goto, Places, Pushing,
          Waiting, Over, Requests, fileVars, netVars
  <2>1. CASE Start(c)      BY <2>1 DEF Start
  <2>2. CASE PushRead(c)   BY <2>2 DEF PushRead
  <2>3. CASE PushWriteSeen(c) BY <2>3 DEF PushWriteSeen, PushWrite, SendRequest
  <2>4. CASE PushFail(c)   BY <2>4 DEF PushFail, SendRequest
  <2>5. CASE RecvOK(c)     BY <2>5 DEF RecvOK
  <2> QED BY <2>1, <2>2, <2>3, <2>4, <2>5
<1>2. MacServerTypeOK' /\ CallsInv'
  BY DEF PushWriteSeen, Written, TypeOK, MacServerTypeOK, CallsInv, macVars,
         loopless, menuVars, iconVars, loopVars, editVars
<1> QED BY <1>1, <1>2 DEF TypeOK

\* Saves, deletions and edits.
LEMMA UserType ==
  ASSUME TypeOK, CallsInv,
         \/ \E fn \in Fns : Save(fn) \/ Delete(fn)
         \/ \E d \in Docs : RemoteEdit(d)
  PROVE  TypeOK' /\ CallsInv'
<1>1. FsClientTypeOK'
  BY DEF Save, Delete, RemoteEdit, clientVars, TypeOK, FsClientTypeOK
<1>2. WorkspaceTypeOK'
  BY DEF Save, Delete, RemoteEdit, netVars, TypeOK, WorkspaceTypeOK, Contents
<1>3. MacServerTypeOK' /\ CallsInv'
  BY DEF Save, Delete, RemoteEdit, Mishap, Written, TypeOK, MacServerTypeOK,
         CallsInv, macVars, loopless, menuVars, iconVars, loopVars, editVars
<1> QED BY <1>1, <1>2, <1>3 DEF TypeOK

\* Requests on their way and requests handled by poll.
LEMMA MessageType ==
  ASSUME TypeOK, CallsInv, NEW c \in Invocations, UNCHANGED clientVars,
         Deliver(c) \/ poll(c, fs[c] \in Over)
  PROVE  TypeOK' /\ CallsInv'
<1>1. FsClientTypeOK'
  BY DEF clientVars, TypeOK, FsClientTypeOK
<1>2. CASE Deliver(c)
  BY <1>1, <1>2
  DEF Deliver, TypeOK, WorkspaceTypeOK, MacServerTypeOK, CallsInv, macVars,
      fileVars, menuVars, iconVars, loopVars, editVars
<1>3. CASE poll(c, fs[c] \in Over)
  <2>1. reply' \subseteq Invocations
    BY <1>3 DEF poll, Answer, TypeOK, WorkspaceTypeOK
  <2>2. dirs' \subseteq Dirs
    BY <1>3, TargetFacts
    DEF poll, mkdirForClient, FileDoesNotExist, registerNewPath, TypeOK,
        WorkspaceTypeOK
  <2>3. WorkspaceTypeOK'
    BY <1>3, <2>1, <2>2 DEF poll, TypeOK, WorkspaceTypeOK, Requests
  <2>4. frames' \in Seq(Frames) /\ CallsInv'
    <3>1. CASE frames' = frames
      BY <3>1 DEF TypeOK, MacServerTypeOK, CallsInv
    <3>2. CASE FileDoesNotExist(c)
      BY <3>2, AddedCall DEF FileDoesNotExist, TypeOK, MacServerTypeOK
    <3> QED BY <1>3, <3>1, <3>2 DEF poll, mkdirForClient, registerNewPath
  <2>5. /\ menu' \in Seq(Invocations \cup ToSet(Fixed)) /\ hidden' \in BOOLEAN
        /\ streams' \subseteq Invocations /\ streams \subseteq streams'
    <3>1. CASE UNCHANGED menuVars
      BY <3>1 DEF menuVars, TypeOK, MacServerTypeOK
    <3>2. CASE menu' = <<c>> \o menu /\ hidden' = FALSE /\ streams' = streams \cup {c}
      <4>1. <<c>> \in Seq(Invocations \cup ToSet(Fixed))
        OBVIOUS
      <4>2. menu \in Seq(Invocations \cup ToSet(Fixed))
        BY DEF TypeOK, MacServerTypeOK
      <4>3. menu' \in Seq(Invocations \cup ToSet(Fixed))
        BY <3>2, <4>1, <4>2, ConcatProperties
      <4> QED BY <3>2, <4>3 DEF TypeOK, MacServerTypeOK
    <3> QED BY <1>3, <3>1, <3>2
         DEF poll, mkdirForClient, FileDoesNotExist, registerNewPath
  <2>6. editor' \in [Invocations -> {"none", "launching", "opened", "missing",
                                     "failed", "lost"}]
    BY <1>3 DEF poll, mkdirForClient, FileDoesNotExist, registerNewPath, TypeOK,
                MacServerTypeOK
  <2>7. MacServerTypeOK'
    BY <1>3, <2>4, <2>5, <2>6 DEF poll, iconVars, TypeOK, MacServerTypeOK
  <2> QED BY <1>1, <2>3, <2>4, <2>7 DEF TypeOK
<1> QED BY <1>2, <1>3

\* The calls of callback, and the processes they wait for.
LEMMA CallType ==
  ASSUME TypeOK, CallsInv, UNCHANGED clientVars,
         \/ \E i \in Invocations : callback(i)
         \/ callbackReturns
         \/ \E k \in DOMAIN frames : RsyncReads(k) \/ RsyncWrites(k) \/ RsyncFails(k)
  PROVE  TypeOK' /\ CallsInv'
<1>1. FsClientTypeOK'
  BY DEF clientVars, TypeOK, FsClientTypeOK
<1> USE DEF menuVars, iconVars, editVars, fileVars, netVars
<1>2. /\ frames \in Seq(Frames) /\ mirror \in [Fns -> Contents \cup {Nil}]
      /\ queue \in Seq([sel : Selectors, item : Invocations])
  BY DEF TypeOK, WorkspaceTypeOK, MacServerTypeOK
<1>3. ASSUME NEW i \in Invocations, callback(i)
      PROVE  TypeOK' /\ CallsInv'
  <2>1. frames' \in Seq(Frames) /\ CallsInv'
    BY <1>2, <1>3, AddedCall DEF callback
  <2>2. queue' \in Seq([sel : Selectors, item : Invocations])
    BY <1>2, <1>3, PerformType DEF callback, Selectors
  <2> QED BY <1>1, <1>3, <2>1, <2>2
       DEF callback, TypeOK, WorkspaceTypeOK, MacServerTypeOK
<1>4. CASE callbackReturns
  <2>1. /\ frames' \in Seq(Frames) /\ DOMAIN frames' \subseteq DOMAIN frames
        /\ \A k \in DOMAIN frames' : frames'[k] = frames[k]
        /\ Last(frames).item \in Invocations
    <3>1. frames # <<>> /\ frames' = Front(frames) /\ Last(frames).kind = "rsync"
      BY <1>4 DEF callbackReturns
    <3>2. /\ Front(frames) \in Seq(Frames) /\ Len(frames) \in Nat \ {0}
          /\ Last(frames) = frames[Len(frames)] /\ DOMAIN frames = 1 .. Len(frames)
          /\ DOMAIN Front(frames) = 1 .. Len(frames) - 1
          /\ \A k \in 1 .. Len(frames) - 1 : Front(frames)[k] = frames[k]
      BY <1>2, <3>1, FrontProperties
    <3>3. Len(frames) \in DOMAIN frames
      BY <3>2
    <3> QED BY <3>1, <3>2, <3>3 DEF CallsInv
  <2>2. CallsInv'
    BY <2>1, FewerCalls
  <2>3. queue' \in Seq([sel : Selectors, item : Invocations])
    <3> DEFINE i == Last(frames).item
    <3>1. Perform("stop", i) \in Seq([sel : Selectors, item : Invocations])
      BY <1>2, <2>1, PerformType DEF Selectors
    <3>2. [sel |-> "alert", item |-> i] \in [sel : Selectors, item : Invocations]
      BY <2>1 DEF Selectors
    <3> QED BY <1>4, <3>1, <3>2, AppendProperties DEF callbackReturns, AfterExit
  <2> QED BY <1>1, <1>4, <2>1, <2>2, <2>3
       DEF callbackReturns, TypeOK, WorkspaceTypeOK, MacServerTypeOK
<1>5. ASSUME NEW k \in DOMAIN frames,
             RsyncReads(k) \/ RsyncWrites(k) \/ RsyncFails(k)
      PROVE  TypeOK' /\ CallsInv'
  <2>1. frames' \in Seq(Frames) /\ CallsInv'
    BY <1>2, <1>5, RsyncFrame, FewerCalls
  <2>2. remote' \in [Docs -> Contents \cup {Nil}]
    <3>1. frames[k] \in Frames /\ frames[k].item \in Invocations
      BY <1>2, <1>5, RsyncFrame, LenProperties, ElementOfSeq
    <3> QED BY <1>5, <3>1, TargetFacts
         DEF RsyncReads, RsyncWrites, RsyncFails, Frames, TypeOK, WorkspaceTypeOK
  <2> QED BY <1>1, <1>5, <2>1, <2>2
       DEF RsyncReads, RsyncWrites, RsyncFails, TypeOK, WorkspaceTypeOK,
           MacServerTypeOK
<1> QED BY <1>3, <1>4, <1>5

\* Selectors that the run loop serves.
LEMMA ServeType ==
  ASSUME TypeOK, CallsInv, MenuInv, UNCHANGED clientVars, Serve
  PROVE  TypeOK' /\ CallsInv'
<1>1. FsClientTypeOK'
  BY DEF clientVars, TypeOK, FsClientTypeOK
<1> USE DEF menuVars, iconVars, editVars, fileVars, netVars
<1>2. WorkspaceTypeOK'
  BY DEF Serve, TypeOK, WorkspaceTypeOK
<1>3. /\ frames \in Seq(Frames) /\ orphans \subseteq Orphans
      /\ queue \in Seq([sel : Selectors, item : Invocations])
  BY DEF TypeOK, MacServerTypeOK, Orphans
<1>4. queue' \in Seq([sel : Selectors, item : Invocations])
  BY <1>3, HeadTailProperties DEF Serve
<1>5. n_rsyncs' \in Nat /\ spinning' \in BOOLEAN
  <2> USE DEF TypeOK, MacServerTypeOK
  <2>1. CASE startRsyncIndicator
    <3>1. spinning' \in BOOLEAN BY <2>1, Zenon DEF startRsyncIndicator
    <3> QED BY <2>1, <3>1 DEF startRsyncIndicator
  <2>2. CASE stopRsyncIndicator
    <3>1. spinning' \in BOOLEAN BY <2>2, Zenon DEF stopRsyncIndicator
    <3> QED BY <2>2, <3>1 DEF stopRsyncIndicator
  <2>3. CASE UNCHANGED iconVars BY <2>3
  <2> QED BY <2>1, <2>2, <2>3 DEF Serve
<1>6. /\ frames' \in Seq(Frames) /\ CallsInv' /\ orphans' \subseteq Orphans
      /\ menu' \in Seq(Invocations \cup ToSet(Fixed)) /\ hidden' \in BOOLEAN
      /\ streams' \subseteq Invocations /\ dirty' \subseteq streams'
  <2>1. CASE UNCHANGED <<menuVars, dirty, frames, orphans>>
    BY <1>3, <2>1 DEF TypeOK, MacServerTypeOK, CallsInv
  <2>2. CASE Unwind /\ UNCHANGED <<menuVars, dirty>>
    <3>1. frames' \in Seq(Frames) /\ CallsInv'
      BY <1>3, <2>2, Unwound, FewerCalls
    <3>2. orphans' \subseteq Orphans
      BY <1>3, <2>2, UnwoundOrphans
    <3> QED BY <2>2, <3>1, <3>2 DEF TypeOK, MacServerTypeOK
  <2>3. CASE /\ menu # <<>> /\ removeMenuItem(menu[1])
             /\ frames' = Append(frames, Frame("alert", Nil)) /\ UNCHANGED orphans
    <3>1. menu[1] \in ToSet(menu)
      BY <2>3, EmptySeq, LenProperties DEF ToSet, TypeOK, MacServerTypeOK
    <3>2. frames' \in Seq(Frames) /\ CallsInv'
      BY <1>3, <2>3, AddedCall
    <3>3. /\ menu' \in Seq(Invocations \cup ToSet(Fixed)) /\ hidden' \in BOOLEAN
          /\ streams' = streams \ {menu[1]} /\ dirty' = dirty \ {menu[1]}
      BY <2>3, <3>1, Removed
    <3> QED BY <1>3, <2>3, <3>2, <3>3 DEF TypeOK, MacServerTypeOK
  <2> QED BY <2>1, <2>2, <2>3 DEF Serve, raiseAlert
<1> QED BY <1>1, <1>2, <1>4, <1>5, <1>6
     DEF Serve, TypeOK, MacServerTypeOK, Orphans

\* launchEditor and its thread, the alerts, the menu, and the machine.
LEMMA terminateType ==
  ASSUME TypeOK, CallsInv, UNCHANGED clientVars, terminateApp, mishaps' \in Nat
  PROVE  TypeOK' /\ CallsInv'
<1>1. orphans \cup Running(frames) \in SUBSET Orphans
  BY RunningType DEF TypeOK, MacServerTypeOK, CallsInv, Orphans
<1>2. editing' \subseteq Fns
  BY DEF terminateApp, TypeOK, MacServerTypeOK
<1>3. /\ MacServerTypeOK' /\ CallsInv' /\ reply' \subseteq Invocations
      /\ inbox' \in [Invocations -> Requests \cup {"none"}]
  BY <1>1, <1>2, StopType DEF terminateApp
<1>4. WorkspaceTypeOK' /\ FsClientTypeOK'
  BY <1>3 DEF terminateApp, fileVars, clientVars, TypeOK, WorkspaceTypeOK,
              FsClientTypeOK
<1> QED BY <1>3, <1>4 DEF TypeOK

\* launchEditor, and an editor that returns an error.
LEMMA EditorType ==
  ASSUME TypeOK, CallsInv, UNCHANGED clientVars, NEW c \in Invocations,
         launchEditor(c) \/ EditorFails(c)
  PROVE  TypeOK' /\ CallsInv'
<1>1. FsClientTypeOK'
  BY DEF clientVars, TypeOK, FsClientTypeOK
<1>2. mishaps' \in Nat
  BY DEF launchEditor, EditorFails, TypeOK, MacServerTypeOK
<1>3. CASE terminateApp
  BY <1>2, <1>3, terminateType
<1>4. CASE /\ queue' \in {queue, Perform("launchAlert", c)}
           /\ editor' \in {[editor EXCEPT ![c] = e] :
                             e \in {"missing", "opened", "failed"}}
           /\ editing' \in {editing, editing \cup {Fn(c)}}
           /\ UNCHANGED <<on, cut, menuVars, dirty, iconVars, frames, orphans,
                          netVars, fileVars>>
  <2> USE DEF menuVars, iconVars, fileVars, netVars
  <2>1. queue' \in Seq([sel : Selectors, item : Invocations])
    <3>1. queue \in Seq([sel : Selectors, item : Invocations])
      BY DEF TypeOK, MacServerTypeOK
    <3>2. "launchAlert" \in Selectors BY DEF Selectors
    <3>3. Perform("launchAlert", c) \in Seq([sel : Selectors, item : Invocations])
      BY <3>1, <3>2, PerformType
    <3>4. queue' = queue \/ queue' = Perform("launchAlert", c) BY <1>4
    <3> QED BY <3>1, <3>3, <3>4
  <2>2. editing' \subseteq Fns
    BY <1>4, TargetFacts DEF TypeOK, MacServerTypeOK
  <2>3. editor' \in [Invocations -> {"none", "launching", "opened", "missing",
                                     "failed", "lost"}]
    <3>1. editor \in [Invocations -> {"none", "launching", "opened", "missing",
                                      "failed", "lost"}]
      BY DEF TypeOK, MacServerTypeOK
    <3> QED BY ONLY <1>4, <3>1
  <2>4. WorkspaceTypeOK' /\ CallsInv'
    BY <1>4 DEF TypeOK, WorkspaceTypeOK, CallsInv
  <2>5. MacServerTypeOK'
    BY <1>2, <1>4, <2>1, <2>2, <2>3 DEF TypeOK, MacServerTypeOK
  <2> QED BY <1>1, <2>4, <2>5 DEF TypeOK
<1> QED BY <1>3, <1>4 DEF launchEditor, EditorFails

\* Buttons, menu items, restarts, and rsyncs that nobody waits for.
LEMMA OtherType ==
  ASSUME TypeOK, CallsInv, MenuInv, UNCHANGED clientVars,
         \/ Dismiss \/ ClickQuit \/ Reboot \/ Launch
         \/ \E i \in Invocations : ClickItem(i)
         \/ \E o \in orphans : Orphan(o)
  PROVE  TypeOK' /\ CallsInv'
<1>1. FsClientTypeOK'
  BY DEF clientVars, TypeOK, FsClientTypeOK
<1> USE DEF menuVars, iconVars, loopVars, editVars, fileVars, netVars
<1>2. CASE terminateApp /\ mishaps' \in Nat
  BY <1>2, terminateType
<1>3. CASE /\ frames # <<>> /\ frames' = Front(frames)
           /\ UNCHANGED <<on, cut, menuVars, dirty, iconVars, queue, orphans,
                          editVars, fileVars, netVars, mishaps>>
  <2>1. frames \in Seq(Frames)
    BY DEF TypeOK, MacServerTypeOK
  <2>2. /\ Front(frames) \in Seq(Frames)
        /\ DOMAIN frames = 1 .. Len(frames) /\ Len(frames) \in Nat \ {0}
        /\ DOMAIN Front(frames) = 1 .. Len(frames) - 1
        /\ \A k \in 1 .. Len(frames) - 1 : Front(frames)[k] = frames[k]
    BY <1>3, <2>1, FrontProperties
  <2>3. DOMAIN frames' \subseteq DOMAIN frames
    BY <1>3, <2>2
  <2>4. CallsInv'
    BY <1>3, <2>2, <2>3, FewerCalls
  <2> QED BY <1>1, <1>3, <2>2, <2>4
       DEF TypeOK, WorkspaceTypeOK, MacServerTypeOK
<1>4. CASE Reboot
  <2>1. editing' \subseteq Fns /\ mishaps' \in Nat
    BY <1>4 DEF Reboot, Mishap, TypeOK, MacServerTypeOK
  <2>2. /\ MacServerTypeOK' /\ CallsInv' /\ reply' \subseteq Invocations
        /\ inbox' \in [Invocations -> Requests \cup {"none"}]
    BY <1>4, <2>1, StopType DEF Reboot
  <2>3. WorkspaceTypeOK'
    BY <1>4, <2>2 DEF Reboot, TypeOK, WorkspaceTypeOK
  <2> QED BY <1>1, <2>2, <2>3 DEF TypeOK
<1>5. CASE Launch
  BY <1>1, <1>5 DEF Launch, TypeOK, WorkspaceTypeOK, MacServerTypeOK, CallsInv
<1>6. ASSUME NEW i \in Invocations, ClickItem(i)
      PROVE  TypeOK' /\ CallsInv'
  <2>1. i \in ToSet(menu)
    BY <1>6 DEF ClickItem, MenuInv, Items
  <2>2. /\ menu' \in Seq(Invocations \cup ToSet(Fixed)) /\ hidden' \in BOOLEAN
        /\ streams' = streams \ {i} /\ dirty' = dirty \ {i}
    BY <1>6, <2>1, Removed DEF ClickItem
  <2> QED BY <1>1, <1>6, <2>2
       DEF ClickItem, Mishap, TypeOK, WorkspaceTypeOK, MacServerTypeOK, CallsInv
<1>7. ASSUME NEW o \in orphans, Orphan(o)
      PROVE  TypeOK' /\ CallsInv'
  <2>1. orphans \subseteq Orphans /\ o \in Orphans
    BY DEF TypeOK, MacServerTypeOK, Orphans
  <2>2. /\ Target[o.item] \in Docs /\ mirror[Fn(o.item)] \in Contents \cup {Nil}
        /\ o.snap \in Contents \cup {Nil}
    BY <2>1, TargetFacts DEF Orphans, TypeOK, WorkspaceTypeOK
  <2>3. orphans' \subseteq Orphans
    BY <1>7, <2>1, <2>2 DEF Orphan, Orphans
  <2>4. remote' \in [Docs -> Contents \cup {Nil}]
    BY <1>7, <2>2 DEF Orphan, TypeOK, WorkspaceTypeOK
  <2>5. MacServerTypeOK' /\ CallsInv'
    BY <1>7, <2>3 DEF Orphan, TypeOK, MacServerTypeOK, CallsInv, Orphans
  <2>6. WorkspaceTypeOK'
    BY <1>7, <2>4 DEF Orphan, TypeOK, WorkspaceTypeOK
  <2> QED BY <1>1, <2>5, <2>6 DEF TypeOK
<1>8. CASE Dismiss BY <1>2, <1>3, <1>8 DEF Dismiss, TypeOK, MacServerTypeOK
<1>9. CASE ClickQuit
  BY <1>2, <1>9 DEF ClickQuit, Mishap, TypeOK, MacServerTypeOK
<1> QED BY <1>4, <1>5, <1>6, <1>7, <1>8, <1>9

\* Every step keeps the types.
LEMMA TypeStep ==
  ASSUME TypeOK, CallsInv, MenuInv, [Next]_vars
  PROVE  TypeOK' /\ CallsInv'
<1>1. CASE UNCHANGED vars
  BY <1>1
  DEF TypeOK, CallsInv, WorkspaceTypeOK, FsClientTypeOK, MacServerTypeOK, vars,
      fileVars, netVars, clientVars, macVars, menuVars, iconVars, loopVars,
      editVars
<1>2. CASE Next
  BY <1>2, NextCases, ClientType, UserType, MessageType, CallType, ServeType,
     EditorType, OtherType, Zenon
<1> QED BY <1>1, <1>2

-----------------------------------------------------------------------------
(* The conversation.                                                       *)

\* Nothing is said.
LEMMA TalkUnchanged ==
  ASSUME TalkInv, UNCHANGED <<fs, sent, inbox, reply, editor>>
  PROVE  TalkInv'
  BY DEF TalkInv

\* Nothing has been said.
LEMMA TalkInit == Init => TalkInv
  BY DEF Init, WorkspaceInit, FsClientInit, MacServerInit, TalkInv, Waiting

\* The client waits for the answer to each of its requests.
LEMMA TalkClient ==
  ASSUME TypeOK, TalkInv, NEW c \in Invocations, UNCHANGED editor,
         Start(c) \/ PushRead(c) \/ PushWrite(c) \/ PushFail(c) \/ RecvOK(c)
  PROVE  TalkInv'
<1> USE DEF TalkInv, TypeOK, WorkspaceTypeOK, FsClientTypeOK, MacServerTypeOK,
            Goto, Waiting, Pushing, netVars
<1>1. CASE Start(c)     BY <1>1 DEF Start
<1>2. CASE PushRead(c)  BY <1>2 DEF PushRead
<1>3. CASE PushWrite(c) BY <1>3 DEF PushWrite, SendRequest
<1>4. CASE PushFail(c)  BY <1>4 DEF PushFail, SendRequest
<1>5. CASE RecvOK(c)    BY <1>5 DEF RecvOK
<1> QED BY <1>1, <1>2, <1>3, <1>4, <1>5

\* Who has sent a request that is being handled is still there.
LEMMA PollTalk ==
  ASSUME TypeOK, TalkInv, NEW c \in Invocations, fs' = fs,
         poll(c, fs[c] \in Over)
  PROVE  /\ TalkInv'
         /\ inbox[c] = "path" => fs[c] = "path" /\ editor[c] = "none"
<1>1. /\ inbox[c] # "none" /\ fs[c] = inbox[c] /\ fs[c] \in {"mkdir", "path"}
      /\ sent[c] = "none" /\ c \notin reply /\ editor[c] = "none"
  BY DEF poll, TalkInv, Waiting
<1>2. /\ inbox' = [inbox EXCEPT ![c] = "none"] /\ sent' = sent
      /\ \/ fs[c] = "mkdir" /\ reply' = reply \cup {c} /\ editor' = editor
         \/ fs[c] = "path" /\ reply' = reply /\ editor' = editor
         \/ /\ fs[c] = "path" /\ reply' = reply \cup {c}
            /\ editor' = [editor EXCEPT ![c] = "launching"]
  BY <1>1 DEF poll, mkdirForClient, FileDoesNotExist, registerNewPath, Answer, Over
<1>3. TalkInv'
  BY <1>1, <1>2
  DEF TalkInv, Waiting, TypeOK, WorkspaceTypeOK, FsClientTypeOK, MacServerTypeOK
<1> QED BY <1>1, <1>3

\* A request moves from the client's socket to the server's.
LEMMA DeliverTalk ==
  ASSUME TypeOK, TalkInv, NEW c \in Invocations, fs' = fs, Deliver(c)
  PROVE  TalkInv'
  BY DEF Deliver, macVars, editVars, TalkInv, Waiting, TypeOK, WorkspaceTypeOK,
         FsClientTypeOK

\* The requests a server had received end with it.
LEMMA StopTalk ==
  ASSUME TypeOK, TalkInv, NEW left, Stop(left), UNCHANGED <<fs, sent>>
  PROVE  TalkInv'
  BY DEF Stop, TalkInv, Waiting, TypeOK, WorkspaceTypeOK, FsClientTypeOK,
         MacServerTypeOK

\* What becomes of an editor that has been launched.
LEMMA EditorTalk ==
  ASSUME TypeOK, TalkInv, NEW c \in Invocations,
         UNCHANGED <<fs, sent, inbox, reply>>, editor[c] # "none",
         NEW e, e # "none", editor' = [editor EXCEPT ![c] = e]
  PROVE  TalkInv'
  BY DEF TalkInv, Waiting, TypeOK, WorkspaceTypeOK, FsClientTypeOK,
         MacServerTypeOK

\* launchEditor and its thread, as far as the conversation sees them.
LEMMA LaunchTalk ==
  ASSUME NEW c \in Invocations, launchEditor(c) \/ EditorFails(c)
  PROVE  \/ terminateApp
         \/ /\ UNCHANGED <<netVars, menuVars, frames, dirty, mirror, streams>>
            /\ editor[c] # "none"
            /\ \E e \in {"missing", "opened", "failed"} :
                 editor' = [editor EXCEPT ![c] = e]
<1>1. CASE launchEditor(c) /\ ~terminateApp
  BY <1>1 DEF launchEditor, menuVars, fileVars
<1>2. CASE EditorFails(c)
  BY <1>2 DEF EditorFails, menuVars, fileVars
<1> QED BY <1>1, <1>2

\* Every step keeps the conversation in order.
LEMMA TalkStep ==
  ASSUME TypeOK, TalkInv, [Next]_vars
  PROVE  TalkInv'
<1> USE DEF clientVars, netVars
<1>1. CASE UNCHANGED vars
  BY <1>1, TalkUnchanged DEF vars, macVars, editVars
<1>2. CASE \E c \in Invocations :
             (Start(c) \/ PushRead(c) \/ PushFail(c) \/ RecvOK(c)) /\ UNCHANGED macVars
  BY <1>2, TalkClient DEF macVars, editVars
<1>3. CASE \E c \in Invocations : PushWriteSeen(c)
  BY <1>3, TalkClient DEF PushWriteSeen, loopless, editVars
<1>4. ASSUME NEW c \in Invocations, UNCHANGED clientVars,
             \/ poll(c, fs[c] \in Over) \/ Deliver(c) \/ launchEditor(c)
             \/ EditorFails(c) \/ callback(c) \/ ClickItem(c)
      PROVE  TalkInv'
  <2>1. CASE poll(c, fs[c] \in Over) BY <1>4, <2>1, PollTalk
  <2>2. CASE Deliver(c) BY <1>4, <2>2, DeliverTalk
  <2>3. CASE launchEditor(c) \/ EditorFails(c)
    <3>1. CASE terminateApp BY <1>4, <3>1, StopTalk DEF terminateApp
    <3>2. CASE /\ UNCHANGED netVars /\ editor[c] # "none"
               /\ \E e \in {"missing", "opened", "failed"} :
                    editor' = [editor EXCEPT ![c] = e]
      BY <1>4, <3>2, EditorTalk
    <3> QED BY <2>3, <3>1, <3>2, LaunchTalk
  <2>4. CASE callback(c) \/ ClickItem(c)
    BY <1>4, <2>4, TalkUnchanged DEF callback, ClickItem, editVars
  <2> QED BY <1>4, <2>1, <2>2, <2>3, <2>4
<1>5. CASE /\ callbackReturns \/ Serve \/ Dismiss \/ ClickQuit \/ Reboot \/ Launch
           /\ UNCHANGED clientVars
  <2>1. CASE callbackReturns \/ Serve \/ Launch
    BY <1>5, <2>1, TalkUnchanged DEF callbackReturns, Serve, Launch, editVars
  <2>2. CASE terminateApp BY <1>5, <2>2, StopTalk DEF terminateApp
  <2>3. CASE Reboot BY <1>5, <2>3, StopTalk DEF Reboot
  <2>4. CASE Dismiss /\ ~terminateApp
    BY <1>5, <2>4, TalkUnchanged DEF Dismiss, editVars
  <2> QED BY <1>5, <2>1, <2>2, <2>3, <2>4 DEF ClickQuit
<1>6. CASE \/ \E k \in DOMAIN frames : /\ RsyncReads(k) \/ RsyncWrites(k) \/ RsyncFails(k)
                                       /\ UNCHANGED clientVars
           \/ \E o \in orphans : Orphan(o) /\ UNCHANGED clientVars
  BY <1>6, TalkUnchanged DEF RsyncReads, RsyncWrites, RsyncFails, Orphan, editVars
<1>7. CASE \/ \E fn \in Fns : Save(fn) \/ Delete(fn)
           \/ \E d \in Docs : RemoteEdit(d)
  BY <1>7, TalkUnchanged DEF Save, Delete, RemoteEdit, loopless, macVars, editVars
<1> QED BY <1>1, <1>2, <1>3, <1>4, <1>5, <1>6, <1>7, NextCases

-----------------------------------------------------------------------------
(* The menu.                                                               *)

\* What has been launched once stays so.
LEMMA LaunchedKept ==
  ASSUME TypeOK, [Next]_vars
  PROVE  \A c \in Invocations : editor[c] # "none" => editor'[c] # "none"
<1> USE DEF TypeOK, MacServerTypeOK, editVars
<1>1. CASE editor' = editor BY <1>1
<1>2. ASSUME NEW c \in Invocations, NEW e, e # "none",
             editor' = [editor EXCEPT ![c] = e]
      PROVE  \A d \in Invocations : editor[d] # "none" => editor'[d] # "none"
  BY <1>2
<1>3. ASSUME NEW left, Stop(left)
      PROVE  \A d \in Invocations : editor[d] # "none" => editor'[d] # "none"
  BY <1>3 DEF Stop
<1>4. CASE UNCHANGED vars BY <1>1, <1>4 DEF vars, macVars
<1>5. ASSUME NEW c \in Invocations,
             \/ poll(c, fs[c] \in Over) \/ Deliver(c) \/ launchEditor(c)
             \/ EditorFails(c) \/ callback(c) \/ ClickItem(c)
      PROVE  \A d \in Invocations : editor[d] # "none" => editor'[d] # "none"
  <2>1. CASE poll(c, fs[c] \in Over)
    <3>1. editor' = editor \/ editor' = [editor EXCEPT ![c] = "launching"]
      BY <2>1 DEF poll, mkdirForClient, FileDoesNotExist, registerNewPath
    <3> QED BY <1>1, <1>2, <3>1
  <2>2. CASE launchEditor(c) \/ EditorFails(c)
    <3>1. CASE terminateApp BY <1>3, <3>1 DEF terminateApp
    <3>2. CASE \E e \in {"missing", "opened", "failed"} :
                 editor' = [editor EXCEPT ![c] = e]
      BY <1>2, <3>2
    <3> QED BY <2>2, <3>1, <3>2, LaunchTalk
  <2>3. CASE Deliver(c) \/ callback(c) \/ ClickItem(c)
    BY <1>1, <2>3 DEF Deliver, callback, ClickItem, macVars
  <2> QED BY <1>5, <2>1, <2>2, <2>3
<1>6. CASE callbackReturns \/ Serve \/ Dismiss \/ ClickQuit \/ Reboot \/ Launch
  <2>1. CASE callbackReturns \/ Serve \/ Launch
    BY <1>1, <2>1 DEF callbackReturns, Serve, Launch
  <2>2. CASE terminateApp BY <1>3, <2>2 DEF terminateApp
  <2>3. CASE Reboot BY <1>3, <2>3 DEF Reboot
  <2>4. CASE Dismiss /\ ~terminateApp BY <1>1, <2>4 DEF Dismiss
  <2> QED BY <1>6, <2>1, <2>2, <2>3, <2>4 DEF ClickQuit
<1>7. CASE editor' # editor /\ Next
  <2>1. \/ \E c \in Invocations : poll(c, fs[c] \in Over) \/ launchEditor(c)
                                    \/ EditorFails(c)
        \/ Dismiss \/ ClickQuit \/ Reboot
    BY <1>7, NextCases
    DEF PushWriteSeen, Deliver, callback, ClickItem, callbackReturns, Serve,
        Launch, RsyncReads, RsyncWrites, RsyncFails, Orphan, Save, Delete,
        RemoteEdit, macVars, loopless
  <2> QED BY <1>5, <1>6, <2>1
<1> QED BY <1>1, <1>4, <1>7

\* Calls that go on waiting wait for the same rsync.
LEMMA CallsLaunched ==
  ASSUME TypeOK, CallsInv, MenuInv, [Next]_vars,
         DOMAIN frames' \subseteq DOMAIN frames,
         \A k \in DOMAIN frames' : /\ frames'[k].kind = frames[k].kind
                                   /\ frames'[k].item = frames[k].item
  PROVE  \A k \in DOMAIN frames' :
           frames'[k].kind = "rsync" => editor'[frames'[k].item] # "none"
  BY LaunchedKept DEF CallsInv, MenuInv

\* A call that begins to wait on top of the others.
LEMMA CallLaunched ==
  ASSUME TypeOK, CallsInv, MenuInv, [Next]_vars,
         NEW kind \in {"rsync", "alert", "fatal"},
         NEW i \in Invocations \cup {Nil},
         kind = "rsync" => i \in Invocations /\ editor[i] # "none",
         frames' = Append(frames, Frame(kind, i))
  PROVE  \A k \in DOMAIN frames' :
           frames'[k].kind = "rsync" => editor'[frames'[k].item] # "none"
<1> SUFFICES ASSUME NEW k \in DOMAIN frames', frames'[k].kind = "rsync"
             PROVE  editor'[frames'[k].item] # "none"
  OBVIOUS
<1>1. frames \in Seq(Frames)
  BY DEF TypeOK, MacServerTypeOK
<1>2. CASE k \in DOMAIN frames
  BY <1>1, <1>2, FrameAdded, LaunchedKept DEF CallsInv, MenuInv
<1>3. CASE k = Len(frames) + 1
  <2>1. frames'[k] = Frame(kind, i) BY <1>1, <1>3, FrameAdded
  <2> QED BY <2>1, LaunchedKept DEF Frame
<1> QED BY <1>1, <1>2, <1>3, FrameAdded

\* The menu does not change, or one item leaves it, or one comes in.
SameMenu == UNCHANGED <<menu, streams>>
LessMenu ==
  \E e \in ToSet(menu) :
    /\ ToSet(menu') = ToSet(menu) \ {e} /\ streams' = streams \ {e}
    /\ \A j, k \in DOMAIN menu' : menu'[j] = menu'[k] => j = k
MoreMenu(c) ==
  /\ isUnique(c) /\ menu' = <<c>> \o menu /\ streams' = streams \cup {c}
  /\ editor'[c] # "none"

\* A menu that is the same, or has lost an item with its stream.
LEMMA MenuStays ==
  ASSUME MenuInv, SameMenu \/ LessMenu,
         \A c \in Invocations : editor[c] # "none" => editor'[c] # "none",
         streams \subseteq Invocations,
         \A k \in DOMAIN frames' :
           frames'[k].kind = "rsync" => editor'[frames'[k].item] # "none"
  PROVE  MenuInv'
<1>1. CASE SameMenu
  BY <1>1 DEF SameMenu, MenuInv, Items, UniqueWatch
<1>2. CASE LessMenu
  <2>1. Items' = streams'
    BY <1>2 DEF LessMenu, MenuInv, Items
  <2>2. Items' \subseteq Items
    BY <1>2 DEF LessMenu, Items
  <2> QED BY <1>2, <2>1, <2>2 DEF LessMenu, MenuInv, UniqueWatch
<1> QED BY <1>1, <1>2

\* A menu with one item more, for a file that had none.
LEMMA MenuGrows ==
  ASSUME MenuInv, TypeOK, NEW c \in Invocations, MoreMenu(c),
         \A d \in Invocations : editor[d] # "none" => editor'[d] # "none",
         \A k \in DOMAIN frames' :
           frames'[k].kind = "rsync" => editor'[frames'[k].item] # "none"
  PROVE  MenuInv'
<1> DEFINE S == Invocations \cup ToSet(Fixed)
<1>1. menu \in Seq(S) /\ <<c>> \in Seq(S) /\ Len(<<c>>) = 1 /\ <<c>>[1] = c
  BY DEF TypeOK, MacServerTypeOK
<1>2. Len(menu) \in Nat /\ DOMAIN menu = 1 .. Len(menu)
  BY <1>1, LenProperties
<1>3. menu' = <<c>> \o menu
  BY DEF MoreMenu
<1>4. <<c>> \o menu \in Seq(S) /\ Len(<<c>> \o menu) = Len(<<c>>) + Len(menu)
  BY <1>1, ConcatProperties
<1>5. \A k \in 1 .. Len(<<c>>) + Len(menu) :
        (<<c>> \o menu)[k] = IF k <= Len(<<c>>) THEN <<c>>[k]
                             ELSE menu[k - Len(<<c>>)]
  BY <1>1, ConcatProperties
<1>6. /\ DOMAIN menu' = 1 .. Len(menu) + 1 /\ menu'[1] = c
      /\ \A k \in 1 .. Len(menu) : menu'[k + 1] = menu[k]
  <2>1. DOMAIN menu' = 1 .. Len(menu) + 1
    BY <1>1, <1>2, <1>3, <1>4, LenProperties
  <2>2. menu'[1] = c
    BY <1>1, <1>2, <1>3, <1>5
  <2>3. ASSUME NEW k \in 1 .. Len(menu) PROVE menu'[k + 1] = menu[k]
    <3>1. k + 1 \in 1 .. Len(<<c>>) + Len(menu) /\ ~(k + 1 <= Len(<<c>>))
          /\ k + 1 - Len(<<c>>) = k
      BY <1>1, <1>2
    <3> QED BY <1>3, <1>5, <3>1
  <2> QED BY <2>1, <2>2, <2>3
<1>7. \A k \in DOMAIN menu' : k = 1 \/ (k - 1 \in DOMAIN menu /\ menu'[k] = menu[k - 1])
  <2> SUFFICES ASSUME NEW k \in DOMAIN menu', k # 1
               PROVE  k - 1 \in DOMAIN menu /\ menu'[k] = menu[k - 1]
    OBVIOUS
  <2>1. k - 1 \in 1 .. Len(menu) /\ k - 1 + 1 = k BY <1>2, <1>6
  <2> QED BY <1>2, <1>6, <2>1
<1>8. ToSet(menu') = ToSet(menu) \cup {c}
  <2>1. ASSUME NEW x \in ToSet(menu) PROVE x \in ToSet(menu')
    <3>1. PICK k \in 1 .. Len(menu) : x = menu[k] BY <1>2 DEF ToSet
    <3>2. k + 1 \in DOMAIN menu' /\ menu'[k + 1] = x BY <1>2, <1>6, <3>1
    <3> QED BY <3>2 DEF ToSet
  <2>2. c \in ToSet(menu')
    BY <1>2, <1>6 DEF ToSet
  <2>3. ToSet(menu') \subseteq ToSet(menu) \cup {c}
    BY <1>6, <1>7 DEF ToSet
  <2> QED BY <2>1, <2>2, <2>3
<1>9. c \notin ToSet(Fixed)
  OBVIOUS
<1>10. Items' = Items \cup {c}
  BY <1>8, <1>9 DEF Items
<1>11. \A i \in Items : Fn(i) # Fn(c)
  BY DEF MoreMenu, isUnique, Items
<1>12. c \notin ToSet(menu)
  BY <1>9, <1>11 DEF Items
<1>13. \A j, k \in DOMAIN menu' : menu'[j] = menu'[k] => j = k
  <2> SUFFICES ASSUME NEW j \in DOMAIN menu', NEW k \in DOMAIN menu',
                      menu'[j] = menu'[k]
               PROVE  j = k
    OBVIOUS
  <2>1. \A m \in DOMAIN menu : menu[m] # c BY <1>12 DEF ToSet
  <2>2. CASE j = 1 /\ k = 1 BY <2>2
  <2>3. CASE j = 1 /\ k # 1 BY <1>6, <1>7, <2>1, <2>3
  <2>4. CASE j # 1 /\ k = 1 BY <1>6, <1>7, <2>1, <2>4
  <2>5. CASE j # 1 /\ k # 1
    <3>1. j - 1 \in DOMAIN menu /\ k - 1 \in DOMAIN menu /\ menu[j - 1] = menu[k - 1]
      BY <1>7, <2>5
    <3>2. j - 1 = k - 1 BY <3>1 DEF MenuInv
    <3> QED BY <1>2, <1>6, <3>2
  <2> QED BY <2>2, <2>3, <2>4, <2>5
<1>14. UniqueWatch'
  BY <1>10, <1>11 DEF UniqueWatch, MenuInv
<1>15. Items' = streams' /\ \A i \in streams' : editor'[i] # "none"
  BY <1>10 DEF MoreMenu, MenuInv, TypeOK, MacServerTypeOK
<1> QED BY <1>13, <1>14, <1>15 DEF MenuInv

\* The menu of a new process has no items.
LEMMA MenuInit == Init => MenuInv
  BY FixedFacts DEF Init, MacServerInit, MenuInv, Items, UniqueWatch

\* A process that ends takes its streams with it.
LEMMA StopMenu ==
  ASSUME NEW left, Stop(left)
  PROVE  MenuInv'
  BY FixedFacts DEF Stop, MenuInv, Items, UniqueWatch

\* What each step of the main thread does to the menu and to the calls.
LEMMA ServeMenu ==
  ASSUME TypeOK, CallsInv, MenuInv, Serve, [Next]_vars
  PROVE  MenuInv'
<1>1. frames \in Seq(Frames)
  BY DEF TypeOK, MacServerTypeOK
<1>2. CASE UNCHANGED <<menuVars, frames>>
  BY <1>2, CallsLaunched, LaunchedKept, MenuStays
  DEF SameMenu, menuVars, TypeOK, MacServerTypeOK
<1>3. CASE Unwind /\ UNCHANGED menuVars
  BY <1>1, <1>3, Unwound, CallsLaunched, LaunchedKept, MenuStays
  DEF SameMenu, menuVars, TypeOK, MacServerTypeOK
<1>4. CASE /\ menu # <<>> /\ removeMenuItem(menu[1])
           /\ frames' = Append(frames, Frame("alert", Nil))
  <2>1. menu[1] \in ToSet(menu)
    BY <1>4, EmptySeq, LenProperties DEF ToSet, TypeOK, MacServerTypeOK
  <2>2. LessMenu
    BY <1>4, <2>1, Removed DEF LessMenu
  <2>3. \A k \in DOMAIN frames' :
          frames'[k].kind = "rsync" => editor'[frames'[k].item] # "none"
    BY <1>4, CallLaunched
  <2> QED BY <2>2, <2>3, LaunchedKept, MenuStays DEF TypeOK, MacServerTypeOK
<1> QED BY <1>2, <1>3, <1>4 DEF Serve, raiseAlert

\* poll adds an item only for a file that has none.
LEMMA PollMenu ==
  ASSUME TypeOK, CallsInv, MenuInv, NEW c \in Invocations,
         poll(c, fs[c] \in Over), [Next]_vars
  PROVE  MenuInv'
<1>1. CASE UNCHANGED <<menuVars, frames>>
  BY <1>1, CallsLaunched, LaunchedKept, MenuStays
  DEF SameMenu, menuVars, TypeOK, MacServerTypeOK
<1>2. CASE FileDoesNotExist(c)
  <2>1. \A k \in DOMAIN frames' :
          frames'[k].kind = "rsync" => editor'[frames'[k].item] # "none"
    BY <1>2, CallLaunched DEF FileDoesNotExist
  <2> QED BY <1>2, <2>1, LaunchedKept, MenuStays
       DEF FileDoesNotExist, SameMenu, menuVars, TypeOK, MacServerTypeOK
<1>3. CASE registerNewPath(c) /\ isUnique(c)
  <2>1. MoreMenu(c) /\ frames' = frames
    BY <1>3 DEF registerNewPath, MoreMenu, TypeOK, MacServerTypeOK
  <2>2. \A k \in DOMAIN frames' :
          frames'[k].kind = "rsync" => editor'[frames'[k].item] # "none"
    BY <2>1, CallsLaunched
  <2> QED BY <2>1, <2>2, LaunchedKept, MenuGrows
<1> QED BY <1>1, <1>2, <1>3 DEF poll, mkdirForClient, registerNewPath, menuVars

\* The innermost call returns.
LEMMA Returned ==
  ASSUME frames \in Seq(Frames), frames # <<>>, frames' = Front(frames)
  PROVE  /\ Len(frames) \in Nat \ {0} /\ DOMAIN frames = 1 .. Len(frames)
         /\ Last(frames) = frames[Len(frames)]
         /\ DOMAIN frames' = 1 .. Len(frames) - 1
         /\ DOMAIN frames' \subseteq DOMAIN frames
         /\ \A k \in DOMAIN frames' : frames'[k] = frames[k]
<1>1. /\ Len(frames) \in Nat \ {0} /\ DOMAIN frames = 1 .. Len(frames)
      /\ Last(frames) = frames[Len(frames)]
      /\ DOMAIN Front(frames) = 1 .. Len(frames) - 1
      /\ \A k \in 1 .. Len(frames) - 1 : Front(frames)[k] = frames[k]
  BY FrontProperties
<1> QED BY <1>1

\* Every step keeps items and streams together.
LEMMA MenuStep ==
  ASSUME TypeOK, CallsInv, MenuInv, [Next]_vars
  PROVE  MenuInv'
<1> USE DEF menuVars
<1>1. frames \in Seq(Frames) /\ streams \subseteq Invocations /\ dirty \subseteq streams
  BY DEF TypeOK, MacServerTypeOK
<1>2. CASE UNCHANGED <<menu, streams, frames>>
  BY <1>1, <1>2, CallsLaunched, LaunchedKept, MenuStays DEF SameMenu
<1>3. ASSUME NEW c \in Invocations, UNCHANGED clientVars,
             \/ poll(c, fs[c] \in Over) \/ Deliver(c) \/ launchEditor(c)
             \/ EditorFails(c) \/ callback(c) \/ ClickItem(c)
      PROVE  MenuInv'
  <2>1. CASE poll(c, fs[c] \in Over) BY <2>1, PollMenu
  <2>2. CASE launchEditor(c) \/ EditorFails(c)
    <3>1. CASE terminateApp BY <3>1, StopMenu DEF terminateApp
    <3>2. CASE UNCHANGED <<menuVars, frames>> BY <1>2, <3>2
    <3> QED BY <2>2, <3>1, <3>2, LaunchTalk
  <2>3. CASE Deliver(c)
    BY <1>2, <2>3 DEF Deliver, macVars, loopVars
  <2>4. CASE callback(c)
    <3>1. \A k \in DOMAIN frames' :
            frames'[k].kind = "rsync" => editor'[frames'[k].item] # "none"
      <4>1. editor[c] # "none" BY <1>1, <2>4 DEF callback, MenuInv
      <4> QED BY <2>4, <4>1, CallLaunched DEF callback
    <3> QED BY <1>1, <2>4, <3>1, LaunchedKept, MenuStays DEF callback, SameMenu
  <2>5. CASE ClickItem(c)
    <3>1. c \in ToSet(menu) BY <2>5 DEF ClickItem, MenuInv, Items
    <3>2. LessMenu BY <2>5, <3>1, Removed DEF ClickItem, LessMenu
    <3>3. \A k \in DOMAIN frames' :
            frames'[k].kind = "rsync" => editor'[frames'[k].item] # "none"
      BY <2>5, CallsLaunched DEF ClickItem, loopVars
    <3> QED BY <1>1, <3>2, <3>3, LaunchedKept, MenuStays
  <2> QED BY <1>3, <2>1, <2>2, <2>3, <2>4, <2>5
<1>4. CASE callbackReturns \/ Serve \/ Dismiss \/ ClickQuit \/ Reboot \/ Launch
  <2>1. CASE Serve BY <2>1, ServeMenu
  <2>2. CASE terminateApp BY <2>2, StopMenu DEF terminateApp
  <2>3. CASE Reboot BY <2>3, StopMenu DEF Reboot
  <2>4. CASE Launch BY <1>2, <2>4 DEF Launch, loopVars
  <2>5. CASE frames # <<>> /\ frames' = Front(frames) /\ UNCHANGED menuVars
    <3>1. \A k \in DOMAIN frames' :
            frames'[k].kind = "rsync" => editor'[frames'[k].item] # "none"
      BY <1>1, <2>5, Returned, CallsLaunched
    <3> QED BY <1>1, <2>5, <3>1, LaunchedKept, MenuStays DEF SameMenu
  <2>6. CASE callbackReturns BY <2>5, <2>6 DEF callbackReturns
  <2>7. CASE Dismiss BY <2>2, <2>5, <2>7 DEF Dismiss
  <2> QED BY <1>4, <2>1, <2>2, <2>3, <2>4, <2>6, <2>7 DEF ClickQuit
<1>5. ASSUME NEW k \in DOMAIN frames,
             RsyncReads(k) \/ RsyncWrites(k) \/ RsyncFails(k)
      PROVE  MenuInv'
  <2>1. \A j \in DOMAIN frames' :
          frames'[j].kind = "rsync" => editor'[frames'[j].item] # "none"
    BY <1>1, <1>5, RsyncFrame, CallsLaunched DEF TypeOK, WorkspaceTypeOK
  <2>2. SameMenu
    BY <1>5 DEF SameMenu, RsyncReads, RsyncWrites, RsyncFails
  <2> QED BY <1>1, <2>1, <2>2, LaunchedKept, MenuStays
<1>6. CASE \E o \in orphans : Orphan(o)
  BY <1>2, <1>6 DEF Orphan
<1>7. CASE \/ \E c \in Invocations : /\ Start(c) \/ PushRead(c) \/ PushFail(c) \/ RecvOK(c)
                                     /\ UNCHANGED macVars
           \/ \E c \in Invocations : PushWriteSeen(c)
           \/ \E fn \in Fns : Save(fn) \/ Delete(fn)
           \/ \E d \in Docs : RemoteEdit(d)
           \/ UNCHANGED vars
  BY <1>2, <1>7 DEF PushWriteSeen, Save, Delete, RemoteEdit, vars, macVars,
                    loopless, loopVars
<1> QED BY <1>3, <1>4, <1>5, <1>6, <1>7, NextCases

-----------------------------------------------------------------------------
(* The indicator.                                                          *)

\* One place more counts if sel is there.
LEMMA AmongStep ==
  ASSUME NEW q, NEW sel, NEW m \in Nat
  PROVE  /\ Among(q, sel, m) \in Nat
         /\ Among(q, sel, m + 1)
              = Among(q, sel, m) + IF q[m + 1].sel = sel THEN 1 ELSE 0
<1> DEFINE I == {k \in Nat : q[k].sel = sel}
<1>1. \A n \in Nat : Among(q, sel, n) = Upto(I, n)
  <2> SUFFICES ASSUME NEW n \in Nat
               PROVE  {k \in 1 .. n : q[k].sel = sel} = {k \in 1 .. n : k \in I}
    BY DEF Among, Upto
  <2> QED OBVIOUS
<1>2. m + 1 \in I <=> q[m + 1].sel = sel
  OBVIOUS
<1> HIDE DEF I
<1>3. m + 1 \in Nat OBVIOUS
<1>4. Among(q, sel, m) = Upto(I, m) /\ Among(q, sel, m + 1) = Upto(I, m + 1)
  BY <1>1, <1>3
<1> QED BY <1>2, <1>4, CountStep

\* No place, no selector.
LEMMA AmongNone ==
  ASSUME NEW q, NEW sel
  PROVE  Among(q, sel, 0) = 0
<1>1. {k \in 1 .. 0 : q[k].sel = sel} = {}
  OBVIOUS
<1> QED BY <1>1, FS_EmptySet DEF Among

\* Only the first m count.
LEMMA AmongSame ==
  ASSUME NEW p, NEW q, NEW sel, NEW m \in Nat, \A k \in 1 .. m : p[k] = q[k]
  PROVE  Among(p, sel, m) = Among(q, sel, m)
<1>1. {k \in 1 .. m : p[k].sel = sel} = {k \in 1 .. m : q[k].sel = sel}
  OBVIOUS
<1> QED BY <1>1 DEF Among

\* Without the first, which counts if it is one of them.
LEMMA AmongTail ==
  ASSUME NEW S, NEW q \in Seq(S), q # <<>>, NEW sel, NEW m \in 0 .. Len(q) - 1
  PROVE  Among(q, sel, m + 1) = Among(Tail(q), sel, m)
                                  + IF Head(q).sel = sel THEN 1 ELSE 0
<1> DEFINE I == {k \in Nat : q[k].sel = sel}
<1>1. Len(q) \in Nat \ {0} /\ m \in Nat /\ Head(q) = q[1]
  BY EmptySeq
<1>2. \A k \in 1 .. m : Tail(q)[k] = q[k + 1]
  BY <1>1, HeadTailProperties
<1>3. {k \in 1 .. m + 1 : q[k].sel = sel} = {k \in 1 .. m + 1 : k \in I}
  BY <1>1
<1>4. {k \in 1 .. m : Tail(q)[k].sel = sel} = {k \in 1 .. m : k + 1 \in I}
  BY <1>1, <1>2
<1>5. 1 \in I <=> Head(q).sel = sel
  BY <1>1
<1> HIDE DEF I
<1>6. Upto(I, m + 1)
        = Cardinality({k \in 1 .. m : k + 1 \in I}) + IF 1 \in I THEN 1 ELSE 0
  BY <1>1, CountShift
<1> QED BY <1>3, <1>4, <1>5, <1>6 DEF Among, Upto

\* Counting all places of a queue counts the queue.
LEMMA QueuedAll ==
  ASSUME NEW sel, NEW S, NEW q \in Seq(S)
  PROVE  Cardinality({k \in DOMAIN q : q[k].sel = sel}) = Total(q, sel)
  BY LenProperties DEF Among, Total

\* Calls that wait: one more, one fewer, or as many.
LEMMA CallsCounted ==
  ASSUME frames \in Seq(Frames)
  PROVE  /\ WaitingCalls("rsync") \in Nat
         /\ \A kind \in {"rsync", "alert", "fatal"} :
            \A i \in Invocations \cup {Nil} :
              frames' = Append(frames, Frame(kind, i)) =>
                WaitingCalls("rsync")' = WaitingCalls("rsync")
                                           + IF kind = "rsync" THEN 1 ELSE 0
         /\ frames # <<>> /\ frames' = Front(frames) =>
              WaitingCalls("rsync") = WaitingCalls("rsync")'
                + IF Last(frames).kind = "rsync" THEN 1 ELSE 0
         /\ /\ DOMAIN frames' = DOMAIN frames
            /\ \A k \in DOMAIN frames : frames'[k].kind = frames[k].kind
            => WaitingCalls("rsync")' = WaitingCalls("rsync")
<1> DEFINE Kinds(s) == {k \in Nat : s[k].kind = "rsync"}
<1>1. Len(frames) \in Nat /\ DOMAIN frames = 1 .. Len(frames)
  BY LenProperties
<1>2. ASSUME NEW s, NEW n \in Nat, DOMAIN s = 1 .. n
      PROVE  Cardinality({k \in DOMAIN s : s[k].kind = "rsync"})
               = Upto(Kinds(s), n)
  <2>1. {k \in DOMAIN s : s[k].kind = "rsync"} = {k \in 1 .. n : k \in Kinds(s)}
    BY <1>2
  <2> QED BY <2>1 DEF Upto
<1>3. WaitingCalls("rsync") = Upto(Kinds(frames), Len(frames))
  BY <1>1, <1>2 DEF WaitingCalls
<1>4. ASSUME NEW s, NEW t, NEW n \in Nat, \A k \in 1 .. n : s[k].kind = t[k].kind
      PROVE  Upto(Kinds(s), n) = Upto(Kinds(t), n)
  <2>1. {k \in 1 .. n : k \in Kinds(s)} = {k \in 1 .. n : k \in Kinds(t)}
    BY <1>4
  <2> QED BY <2>1 DEF Upto
<1>5. \A s : \A n \in Nat : n \in Kinds(s) <=> s[n].kind = "rsync"
  OBVIOUS
<1> HIDE DEF Kinds
<1>6. \A s : \A n \in Nat :
        /\ Upto(Kinds(s), n) \in Nat
        /\ Upto(Kinds(s), n + 1) = Upto(Kinds(s), n)
                                     + IF n + 1 \in Kinds(s) THEN 1 ELSE 0
  BY CountStep
<1>7. WaitingCalls("rsync") \in Nat
  BY <1>1, <1>3, <1>6
<1>8. ASSUME NEW kind \in {"rsync", "alert", "fatal"},
             NEW i \in Invocations \cup {Nil},
             frames' = Append(frames, Frame(kind, i))
      PROVE  WaitingCalls("rsync")' = WaitingCalls("rsync")
                                        + IF kind = "rsync" THEN 1 ELSE 0
  <2>1. /\ DOMAIN frames' = 1 .. Len(frames) + 1
        /\ \A k \in 1 .. Len(frames) : frames'[k].kind = frames[k].kind
        /\ frames'[Len(frames) + 1].kind = kind
    BY <1>1, <1>8, FrameAdded DEF Frame
  <2>2. WaitingCalls("rsync")' = Upto(Kinds(frames'), Len(frames) + 1)
    BY <1>1, <1>2, <2>1 DEF WaitingCalls
  <2>3. Upto(Kinds(frames'), Len(frames)) = Upto(Kinds(frames), Len(frames))
    BY <1>1, <1>4, <2>1
  <2>4. Upto(Kinds(frames'), Len(frames) + 1) = Upto(Kinds(frames'), Len(frames))
          + IF Len(frames) + 1 \in Kinds(frames') THEN 1 ELSE 0
    BY <1>1, <1>6
  <2>5. Len(frames) + 1 \in Kinds(frames') <=> kind = "rsync"
    BY <1>1, <1>5, <2>1
  <2> QED BY <1>3, <2>2, <2>3, <2>4, <2>5
<1>9. ASSUME frames # <<>>, frames' = Front(frames)
      PROVE  WaitingCalls("rsync") = WaitingCalls("rsync")'
               + IF Last(frames).kind = "rsync" THEN 1 ELSE 0
  <2> DEFINE n == Len(frames) - 1
  <2>1. /\ n \in Nat /\ n + 1 = Len(frames) /\ DOMAIN frames' = 1 .. n
        /\ \A k \in 1 .. n : frames'[k].kind = frames[k].kind
        /\ Last(frames) = frames[n + 1]
    BY <1>9, Returned
  <2> HIDE DEF n
  <2>2. WaitingCalls("rsync")' = Upto(Kinds(frames'), n)
    BY <1>2, <2>1 DEF WaitingCalls
  <2>3. Upto(Kinds(frames'), n) = Upto(Kinds(frames), n)
    BY <1>4, <2>1
  <2>4. Upto(Kinds(frames), n + 1) = Upto(Kinds(frames), n)
          + IF n + 1 \in Kinds(frames) THEN 1 ELSE 0
    BY <1>6, <2>1
  <2>5. n + 1 \in Kinds(frames) <=> Last(frames).kind = "rsync"
    BY <1>5, <2>1
  <2> QED BY <1>3, <2>1, <2>2, <2>3, <2>4, <2>5
<1>10. ASSUME DOMAIN frames' = DOMAIN frames,
              \A k \in DOMAIN frames : frames'[k].kind = frames[k].kind
       PROVE  WaitingCalls("rsync")' = WaitingCalls("rsync")
  <2>1. WaitingCalls("rsync")' = Upto(Kinds(frames'), Len(frames))
    BY <1>1, <1>2, <1>10 DEF WaitingCalls
  <2>2. Upto(Kinds(frames'), Len(frames)) = Upto(Kinds(frames), Len(frames))
    BY <1>1, <1>4, <1>10
  <2> QED BY <1>3, <2>1, <2>2
<1> QED BY <1>7, <1>8, <1>9, <1>10

Queue == Seq([sel : Selectors, item : Invocations])

\* Queued is the count of the whole queue.
LEMMA QueuedCounts ==
  ASSUME queue \in Queue
  PROVE  /\ Queued("start") = Total(queue, "start")
         /\ Queued("stop") = Total(queue, "stop")
         /\ Len(queue) \in Nat /\ DOMAIN queue = 1 .. Len(queue)
  BY LenProperties, QueuedAll DEF Queued, Queue

\* One more selector in a queue, at its end.
Added(q, sel, i) == Append(q, [sel |-> sel, item |-> i])

\* One more at the end counts where it is the one that is counted.
LEMMA QueueAppend ==
  ASSUME NEW q \in Queue, NEW sel \in Selectors, NEW i \in Invocations
  PROVE  /\ Added(q, sel, i) \in Queue
         /\ Len(Added(q, sel, i)) = Len(q) + 1 /\ Len(q) \in Nat
         /\ NoLaunchAlert(q) /\ sel # "launchAlert"
              => NoLaunchAlert(Added(q, sel, i))
         /\ \A s : \A m \in 0 .. Len(q) :
              Among(Added(q, sel, i), s, m) = Among(q, s, m)
         /\ \A s : /\ Total(q, s) \in Nat
                   /\ Total(Added(q, sel, i), s)
                        = Total(q, s) + IF sel = s THEN 1 ELSE 0
<1> DEFINE e == [sel |-> sel, item |-> i]
           t == Added(q, sel, i)
<1>1. e \in [sel : Selectors, item : Invocations] /\ e.sel = sel
  OBVIOUS
<1> HIDE DEF e
<1>2. /\ t \in Queue /\ Len(t) = Len(q) + 1 /\ Len(q) \in Nat
      /\ DOMAIN q = 1 .. Len(q) /\ DOMAIN t = 1 .. Len(q) + 1
      /\ \A k \in 1 .. Len(q) : t[k] = q[k]
      /\ t[Len(q) + 1] = e
  <2>1. t = Append(q, e) BY DEF Added, e
  <2> HIDE DEF t
  <2> QED BY <1>1, <2>1, AppendProperties, LenProperties DEF Queue
<1> HIDE DEF t
<1>3. ASSUME NEW s, NEW m \in 0 .. Len(q)
      PROVE  Among(t, s, m) = Among(q, s, m) /\ Among(q, s, m) \in Nat
  <2>1. m \in Nat /\ \A k \in 1 .. m : t[k] = q[k] BY <1>2
  <2> QED BY <2>1, AmongSame, AmongStep
<1>4. ASSUME NEW s
      PROVE  /\ Total(q, s) \in Nat
             /\ Total(t, s) = Total(q, s) + IF sel = s THEN 1 ELSE 0
  <2>1. Among(t, s, Len(q) + 1) = Among(t, s, Len(q))
          + IF t[Len(q) + 1].sel = s THEN 1 ELSE 0
    BY <1>2, AmongStep
  <2>2. Among(t, s, Len(q)) = Among(q, s, Len(q)) /\ Among(q, s, Len(q)) \in Nat
    BY <1>2, <1>3
  <2> QED BY <1>1, <1>2, <2>1, <2>2 DEF Total
<1>5. ASSUME NoLaunchAlert(q), sel # "launchAlert"
      PROVE  NoLaunchAlert(t)
  <2> SUFFICES ASSUME NEW k \in DOMAIN t PROVE t[k].sel # "launchAlert"
    BY DEF NoLaunchAlert
  <2>1. CASE k \in 1 .. Len(q) BY <1>2, <1>5, <2>1 DEF NoLaunchAlert
  <2>2. CASE k = Len(q) + 1 BY <1>1, <1>2, <1>5, <2>2
  <2> QED BY <1>2, <2>1, <2>2
<1> QED BY <1>2, <1>3, <1>4, <1>5 DEF t

\* A stop may be added when fewer stops than starts are under way.
LEMMA QueueClamped ==
  ASSUME NEW q \in Queue, NEW sel \in Selectors, NEW i \in Invocations,
         NEW n \in Nat, NeverClamped(q, n),
         sel = "stop" => Total(q, "stop") < n + Total(q, "start")
  PROVE  NeverClamped(Added(q, sel, i), n)
<1> DEFINE t == Added(q, sel, i)
<1>1. Len(t) = Len(q) + 1 /\ Len(q) \in Nat
  BY QueueAppend
<1>2. /\ Total(t, "stop") = Total(q, "stop") + IF sel = "stop" THEN 1 ELSE 0
      /\ Total(t, "start") = Total(q, "start") + IF sel = "start" THEN 1 ELSE 0
      /\ Total(q, "stop") \in Nat /\ Total(q, "start") \in Nat
  BY QueueAppend
<1>3. \A m \in 0 .. Len(q) : /\ Among(t, "stop", m) = Among(q, "stop", m)
                            /\ Among(t, "start", m) = Among(q, "start", m)
  BY QueueAppend
<1> HIDE DEF t
<1>4. SUFFICES ASSUME NEW m \in 0 .. Len(q) + 1
               PROVE  Among(t, "stop", m) <= n + Among(t, "start", m)
  BY <1>1 DEF NeverClamped, t
<1>5. CASE m \in 0 .. Len(q)
  BY <1>3, <1>5 DEF NeverClamped
<1>6. CASE m = Len(q) + 1
  <2>1. Total(q, "stop") <= n + Total(q, "start")
    BY <1>1 DEF NeverClamped, Total
  <2>2. Total(t, "stop") <= n + Total(t, "start")
    BY <1>2, <2>1
  <2> QED BY <1>1, <1>6, <2>2 DEF Total
<1> QED BY <1>1, <1>5, <1>6

\* The first selector leaves a queue and is performed.
LEMMA QueueTail ==
  ASSUME NEW q \in Queue, q # <<>>
  PROVE  /\ Tail(q) \in Queue /\ Len(Tail(q)) = Len(q) - 1 /\ Len(q) \in Nat \ {0}
         /\ Head(q) \in [sel : Selectors, item : Invocations]
         /\ NoLaunchAlert(q) => /\ Head(q).sel # "launchAlert"
                                /\ NoLaunchAlert(Tail(q))
         /\ \A s : /\ Total(Tail(q), s) \in Nat
                   /\ Total(q, s) = Total(Tail(q), s)
                                      + IF Head(q).sel = s THEN 1 ELSE 0
         /\ \A n \in Nat : NeverClamped(q, n) =>
              /\ Head(q).sel = "stop" => n > 0
              /\ \A p \in Nat :
                   p = n + (IF Head(q).sel = "start" THEN 1 ELSE 0)
                         - (IF Head(q).sel = "stop" THEN 1 ELSE 0)
                   => NeverClamped(Tail(q), p)
<1> DEFINE t == Tail(q)
<1>1. /\ t \in Queue /\ Len(t) = Len(q) - 1 /\ Len(q) \in Nat \ {0}
      /\ Head(q) \in [sel : Selectors, item : Invocations] /\ Head(q) = q[1]
      /\ \A k \in 1 .. Len(q) - 1 : t[k] = q[k + 1]
      /\ DOMAIN q = 1 .. Len(q) /\ DOMAIN t = 1 .. Len(q) - 1
  <2> DEFINE Q == [sel : Selectors, item : Invocations]
  <2>1. q \in Seq(Q) BY DEF Queue
  <2> HIDE DEF Q
  <2>2. /\ Head(q) \in Q /\ t \in Seq(Q) /\ Len(t) = Len(q) - 1
        /\ \A k \in 1 .. Len(t) : t[k] = q[k + 1]
    BY <2>1, HeadTailProperties
  <2>3. Len(q) \in Nat \ {0} /\ DOMAIN q = 1 .. Len(q)
    BY <2>1, EmptySeq, LenProperties
  <2>4. DOMAIN t = 1 .. Len(t) BY <2>2, LenProperties
  <2>5. Head(q) = q[1] OBVIOUS
  <2> HIDE DEF t
  <2> QED BY <2>2, <2>3, <2>4, <2>5 DEF Queue, Q
<1>2. ASSUME NEW s, NEW m \in 0 .. Len(q) - 1
      PROVE  /\ Among(t, s, m) \in Nat
             /\ Among(q, s, m + 1) = Among(t, s, m)
                                       + IF Head(q).sel = s THEN 1 ELSE 0
  <2>1. m \in Nat BY <1>1
  <2> QED BY <2>1, AmongStep, AmongTail DEF Queue
<1> HIDE DEF t
<1>3. NoLaunchAlert(q) => Head(q).sel # "launchAlert" /\ NoLaunchAlert(t)
  BY <1>1 DEF NoLaunchAlert
<1>4. \A s : /\ Total(t, s) \in Nat
            /\ Total(q, s) = Total(t, s) + IF Head(q).sel = s THEN 1 ELSE 0
  <2>1. Len(q) - 1 \in 0 .. Len(q) - 1 /\ Len(q) - 1 + 1 = Len(q) BY <1>1
  <2> QED BY <1>1, <1>2, <2>1 DEF Total
<1>5. ASSUME NEW n \in Nat, NeverClamped(q, n), Head(q).sel = "stop"
      PROVE  n > 0
  <2>1. /\ Among(q, "stop", 0 + 1) = Among(t, "stop", 0) + 1
        /\ Among(q, "start", 0 + 1) = Among(t, "start", 0)
        /\ Among(t, "stop", 0) \in Nat /\ Among(t, "start", 0) \in Nat
    BY <1>1, <1>2, <1>5
  <2>2. Among(t, "start", 0) = 0 BY AmongNone
  <2>3. Among(q, "stop", 1) <= n + Among(q, "start", 1)
    BY <1>1, <1>5 DEF NeverClamped
  <2> QED BY <2>1, <2>2, <2>3
<1>6. ASSUME NEW n \in Nat, NeverClamped(q, n), NEW p \in Nat,
             p = n + (IF Head(q).sel = "start" THEN 1 ELSE 0)
                   - (IF Head(q).sel = "stop" THEN 1 ELSE 0)
      PROVE  NeverClamped(t, p)
  <2> SUFFICES ASSUME NEW m \in 0 .. Len(q) - 1
               PROVE  Among(t, "stop", m) <= p + Among(t, "start", m)
    BY <1>1 DEF NeverClamped
  <2>1. m + 1 \in 0 .. Len(q) BY <1>1
  <2>2. Among(q, "stop", m + 1) <= n + Among(q, "start", m + 1)
    BY <1>6, <2>1 DEF NeverClamped
  <2>3. /\ Among(t, "stop", m) \in Nat /\ Among(t, "start", m) \in Nat
        /\ Among(q, "stop", m + 1) = Among(t, "stop", m)
             + IF Head(q).sel = "stop" THEN 1 ELSE 0
        /\ Among(q, "start", m + 1) = Among(t, "start", m)
             + IF Head(q).sel = "start" THEN 1 ELSE 0
    BY <1>2
  <2> QED BY <1>6, <2>2, <2>3
<1> QED BY <1>1, <1>3, <1>4, <1>5, <1>6 DEF t

\* Exceptions leave their mark: a launchEditor that has failed stays so, and a
\* menu that has lost its last entry gets it back with a new process only.
LEMMA NoExceptionBefore ==
  ASSUME TypeOK, TalkInv, MenuInv, [Next]_vars, NoException',
         ~ \E left : Stop(left)
  PROVE  NoException
<1>1. ASSUME NEW c \in Invocations, editor[c] \in {"missing", "failed"}
      PROVE  editor'[c] = editor[c]
  <2> USE DEF editVars
  <2>1. CASE editor' = editor BY <2>1
  <2>2. ASSUME NEW d \in Invocations, NEW e, editor' = [editor EXCEPT ![d] = e],
               editor[d] \notin {"missing", "failed"}
        PROVE  editor'[c] = editor[c]
    BY <1>1, <2>2 DEF TypeOK, MacServerTypeOK
  <2>3. ~terminateApp /\ ~Reboot BY DEF terminateApp, Reboot
  <2>4. ASSUME NEW d \in Invocations, poll(d, fs[d] \in Over), UNCHANGED clientVars
        PROVE  editor'[c] = editor[c]
    <3>1. \/ editor' = editor
          \/ inbox[d] = "path" /\ editor' = [editor EXCEPT ![d] = "launching"]
      BY <2>4
      DEF poll, mkdirForClient, FileDoesNotExist, registerNewPath, TypeOK,
          WorkspaceTypeOK, Requests
    <3>2. inbox[d] = "path" => editor[d] = "none"
      BY <2>4, PollTalk DEF clientVars
    <3> QED BY <2>1, <2>2, <3>1, <3>2
  <2>5. ASSUME NEW d \in Invocations, launchEditor(d)
        PROVE  editor'[c] = editor[c]
    BY <2>2, <2>3, <2>5 DEF launchEditor
  <2>6. ASSUME NEW d \in Invocations, EditorFails(d)
        PROVE  editor'[c] = editor[c]
    BY <2>2, <2>6 DEF EditorFails
  <2>7. CASE \/ \E d \in Invocations : PushWriteSeen(d) \/ Deliver(d)
                                         \/ callback(d) \/ ClickItem(d)
             \/ callbackReturns \/ Serve \/ Dismiss \/ Launch
             \/ \E k \in DOMAIN frames :
                  RsyncReads(k) \/ RsyncWrites(k) \/ RsyncFails(k)
             \/ \E o \in orphans : Orphan(o)
             \/ \E fn \in Fns : Save(fn) \/ Delete(fn)
             \/ \E d \in Docs : RemoteEdit(d)
             \/ UNCHANGED macVars
    BY <2>1, <2>3, <2>7
    DEF PushWriteSeen, Deliver, callback, ClickItem, callbackReturns, Serve,
        Dismiss, Launch, RsyncReads, RsyncWrites, RsyncFails, Orphan, Save,
        Delete, RemoteEdit, macVars, loopless
  <2>8. CASE UNCHANGED vars BY <2>7, <2>8 DEF vars
  <2> QED BY <2>3, <2>4, <2>5, <2>6, <2>7, <2>8, NextCases DEF ClickQuit
<1>2. ToSet(menu') \subseteq ToSet(menu) \cup Invocations
  <2> USE DEF menuVars
  <2>1. CASE menu' = menu BY <2>1
  <2>2. ASSUME NEW e \in ToSet(menu), removeMenuItem(e)
        PROVE  ToSet(menu') \subseteq ToSet(menu)
    BY <2>2, Removed
  <2>3. ~terminateApp /\ ~Reboot BY DEF terminateApp, Reboot
  <2>4. ASSUME NEW c \in Invocations, menu' = <<c>> \o menu
        PROVE  ToSet(menu') \subseteq ToSet(menu) \cup Invocations
    <3> DEFINE S == ToSet(menu) \cup Invocations
    <3>1. menu \in Seq(Invocations \cup ToSet(Fixed))
      BY DEF TypeOK, MacServerTypeOK
    <3>2. Len(menu) \in Nat /\ DOMAIN menu = 1 .. Len(menu)
      BY <3>1, LenProperties
    <3>3. menu = [k \in 1 .. Len(menu) |-> menu[k]]
      BY <3>1, LenProperties
    <3>4. \A k \in 1 .. Len(menu) : menu[k] \in S
      BY <3>2 DEF ToSet
    <3> HIDE DEF S
    <3>5. menu \in Seq(S)
      BY <3>2, <3>3, <3>4
    <3>6. <<c>> \in Seq(S)
      BY DEF S
    <3>7. menu' \in Seq(S)
      BY <2>4, <3>5, <3>6, ConcatProperties
    <3> QED BY <3>7, LenProperties, ElementOfSeq DEF ToSet, S
  <2>5. ASSUME NEW d \in Invocations, poll(d, fs[d] \in Over)
        PROVE  ToSet(menu') \subseteq ToSet(menu) \cup Invocations
    BY <2>1, <2>4, <2>5
    DEF poll, mkdirForClient, FileDoesNotExist, registerNewPath
  <2>6. CASE Serve
    <3>1. CASE menu # <<>> /\ removeMenuItem(menu[1])
      <4>1. menu[1] \in ToSet(menu)
        BY <3>1, EmptySeq, LenProperties DEF ToSet, TypeOK, MacServerTypeOK
      <4> QED BY <2>2, <3>1, <4>1
    <3> QED BY <2>1, <2>6, <3>1 DEF Serve, raiseAlert
  <2>7. ASSUME NEW i \in Invocations, ClickItem(i)
        PROVE  ToSet(menu') \subseteq ToSet(menu)
    BY <2>2, <2>7 DEF ClickItem, MenuInv, Items
  <2>8. CASE \/ \E d \in Invocations : PushWriteSeen(d) \/ Deliver(d)
                  \/ callback(d) \/ launchEditor(d) \/ EditorFails(d)
             \/ callbackReturns \/ Dismiss \/ Launch
             \/ \E k \in DOMAIN frames :
                  RsyncReads(k) \/ RsyncWrites(k) \/ RsyncFails(k)
             \/ \E o \in orphans : Orphan(o)
             \/ \E fn \in Fns : Save(fn) \/ Delete(fn)
             \/ \E d \in Docs : RemoteEdit(d)
             \/ UNCHANGED macVars
    BY <2>1, <2>3, <2>8
    DEF PushWriteSeen, Deliver, callback, launchEditor, EditorFails,
        callbackReturns, Dismiss, Launch, RsyncReads, RsyncWrites, RsyncFails,
        Orphan, Save, Delete, RemoteEdit, macVars, loopless
  <2>9. CASE UNCHANGED vars BY <2>8, <2>9 DEF vars
  <2> QED BY <2>3, <2>5, <2>6, <2>7, <2>8, <2>9, NextCases DEF ClickQuit
<1>3. "Quit" \notin Invocations
  BY FixedFacts
<1> QED BY <1>1, <1>2, <1>3 DEF NoException

\* A step that neither performs nor serves a selector.
LEMMA CountQuiet ==
  ASSUME CountInv, UNCHANGED <<queue, n_rsyncs, spinning>>,
         WaitingCalls("rsync")' = WaitingCalls("rsync"),
         NoException' => NoException
  PROVE  CountInv'
  BY DEF CountInv, Queued

\* Nothing runs and nothing turns in a new process.
LEMMA CountStop ==
  ASSUME NEW left, Stop(left)
  PROVE  CountInv'
<1>1. frames' = <<>> /\ queue' = <<>> /\ n_rsyncs' = 0 /\ spinning' = FALSE
  BY DEF Stop
<1>2. DOMAIN queue' = {} /\ DOMAIN frames' = {} /\ Len(queue') = 0
  BY <1>1
<1>3. /\ {k \in DOMAIN queue' : queue'[k].sel = "start"} = {}
      /\ {k \in DOMAIN queue' : queue'[k].sel = "stop"} = {}
      /\ {k \in DOMAIN frames' : frames'[k].kind = "rsync"} = {}
  BY <1>2
<1>4. Queued("start")' = 0 /\ Queued("stop")' = 0 /\ WaitingCalls("rsync")' = 0
  BY <1>3, FS_EmptySet DEF Queued, WaitingCalls
<1>5. NeverClamped(queue', n_rsyncs')
  BY <1>1, <1>2, AmongNone DEF NeverClamped
<1> QED BY <1>1, <1>2, <1>4, <1>5 DEF CountInv, NoLaunchAlert

\* Nothing runs and nothing turns at first.
LEMMA CountInit == Init => CountInv
<1> SUFFICES ASSUME Init PROVE CountInv
  OBVIOUS
<1>1. frames = <<>> /\ queue = <<>> /\ n_rsyncs = 0 /\ spinning = FALSE
  BY DEF Init, MacServerInit
<1>2. DOMAIN queue = {} /\ DOMAIN frames = {} /\ Len(queue) = 0
  BY <1>1
<1>3. /\ {k \in DOMAIN queue : queue[k].sel = "start"} = {}
      /\ {k \in DOMAIN queue : queue[k].sel = "stop"} = {}
      /\ {k \in DOMAIN frames : frames[k].kind = "rsync"} = {}
  BY <1>2
<1>4. Queued("start") = 0 /\ Queued("stop") = 0 /\ WaitingCalls("rsync") = 0
  BY <1>3, FS_EmptySet DEF Queued, WaitingCalls
<1>5. NeverClamped(queue, n_rsyncs)
  BY <1>1, <1>2, AmongNone DEF NeverClamped
<1> QED BY <1>1, <1>2, <1>4, <1>5 DEF CountInv, NoLaunchAlert

\* callback counts itself, once more in the queue and once more in the calls.
LEMMA CountCallback ==
  ASSUME TypeOK, CountInv, NEW i \in Invocations, callback(i)
  PROVE  CountInv'
<1>1. /\ queue \in Queue /\ frames \in Seq(Frames) /\ n_rsyncs \in Nat
  BY DEF TypeOK, MacServerTypeOK, Queue
<1>2. /\ queue' = Added(queue, "start", i)
      /\ frames' = Append(frames, Frame("rsync", i))
      /\ UNCHANGED <<n_rsyncs, spinning, editor, menu>>
  BY DEF callback, Perform, Added, iconVars, menuVars, editVars
<1>3. WaitingCalls("rsync")' = WaitingCalls("rsync") + 1
  BY <1>1, <1>2, CallsCounted
<1>4. /\ queue' \in Queue
      /\ NoLaunchAlert(queue) => NoLaunchAlert(queue')
      /\ Total(queue', "start") = Total(queue, "start") + 1
      /\ Total(queue', "stop") = Total(queue, "stop")
      /\ Total(queue, "start") \in Nat
      /\ Total(queue, "stop") \in Nat
      /\ NeverClamped(queue, n_rsyncs) => NeverClamped(queue', n_rsyncs)
  <2>1. "start" \in Selectors BY DEF Selectors
  <2>2. /\ Added(queue, "start", i) \in Queue
        /\ NoLaunchAlert(queue) => NoLaunchAlert(Added(queue, "start", i))
        /\ \A s : /\ Total(queue, s) \in Nat
                  /\ Total(Added(queue, "start", i), s)
                       = Total(queue, s) + IF "start" = s THEN 1 ELSE 0
    BY <1>1, <2>1, QueueAppend
  <2>3. NeverClamped(queue, n_rsyncs)
          => NeverClamped(Added(queue, "start", i), n_rsyncs)
    BY <1>1, <2>1, QueueClamped
  <2> QED BY <1>2, <2>2, <2>3
<1>5. /\ Queued("start") = Total(queue, "start")
      /\ Queued("stop") = Total(queue, "stop")
      /\ Queued("start")' = Total(queue', "start")
      /\ Queued("stop")' = Total(queue', "stop")
  BY <1>1, <1>4, QueuedAll DEF Queue, Queued
<1>6. NoException' => NoException
  BY <1>2 DEF NoException
<1>7. WaitingCalls("rsync") \in Nat
  BY <1>1, CallsCounted
<1>8. spinning' <=> n_rsyncs' > 0
  BY <1>2 DEF CountInv
<1> HIDE DEF Queued, WaitingCalls
<1>9. ASSUME NoException'
      PROVE  /\ NoLaunchAlert(queue')
             /\ n_rsyncs' + Queued("start")' = WaitingCalls("rsync")' + Queued("stop")'
             /\ NeverClamped(queue', n_rsyncs')
  <2>1. /\ NoLaunchAlert(queue)
        /\ n_rsyncs + Queued("start") = WaitingCalls("rsync") + Queued("stop")
        /\ NeverClamped(queue, n_rsyncs)
    BY <1>6, <1>9 DEF CountInv
  <2>2. n_rsyncs' = n_rsyncs BY <1>2
  <2>3. n_rsyncs' + Queued("start")' = WaitingCalls("rsync")' + Queued("stop")'
    BY <1>1, <1>3, <1>4, <1>5, <1>7, <2>1, <2>2
  <2> QED BY <1>4, <2>1, <2>2, <2>3
<1> QED BY <1>8, <1>9 DEF CountInv

\* When it returns, the selector that stops the indicator finds it counted.
LEMMA CountReturns ==
  ASSUME TypeOK, CallsInv, CountInv, callbackReturns
  PROVE  CountInv'
<1> DEFINE i == Last(frames).item
           q == Added(queue, "stop", i)
<1>1. queue \in Queue /\ frames \in Seq(Frames) /\ n_rsyncs \in Nat
  BY DEF TypeOK, MacServerTypeOK, Queue
<1>2. /\ frames # <<>> /\ frames' = Front(frames) /\ Last(frames).kind = "rsync"
      /\ UNCHANGED <<n_rsyncs, spinning, editor, menu>>
      /\ \/ queue' = q
         \/ queue' = Added(q, "alert", i)
  BY DEF callbackReturns, AfterExit, Perform, Added, iconVars, menuVars, editVars
<1>3. i \in Invocations
  <2>1. /\ Len(frames) \in Nat \ {0} /\ DOMAIN frames = 1 .. Len(frames)
        /\ Last(frames) = frames[Len(frames)]
    BY <1>1, <1>2, Returned
  <2>2. Len(frames) \in DOMAIN frames BY <2>1
  <2> QED BY <1>2, <2>1, <2>2 DEF CallsInv
<1>4. WaitingCalls("rsync") = WaitingCalls("rsync")' + 1
  BY <1>1, <1>2, CallsCounted
<1>5. /\ queue' \in Seq([sel : Selectors, item : Invocations])
      /\ WaitingCalls("rsync")' \in Nat
  <2>1. q \in Queue /\ "alert" \in Selectors
    BY <1>1, <1>3, QueueAppend DEF Selectors
  <2> HIDE DEF q, i
  <2>2. queue' \in Queue BY <1>2, <1>3, <2>1, QueueAppend
  <2>3. frames' \in Seq(Frames) BY <1>1, <1>2, FrontProperties
  <2>4. \A fr \in Seq(Frames) :
          Cardinality({k \in DOMAIN fr : fr[k].kind = "rsync"}) \in Nat
    <3> SUFFICES ASSUME NEW fr \in Seq(Frames)
                 PROVE  Cardinality({k \in DOMAIN fr : fr[k].kind = "rsync"}) \in Nat
      OBVIOUS
    <3> DEFINE I == {k \in Nat : fr[k].kind = "rsync"}
    <3>1. Len(fr) \in Nat /\ DOMAIN fr = 1 .. Len(fr) BY LenProperties
    <3>2. {k \in DOMAIN fr : fr[k].kind = "rsync"} = {k \in 1 .. Len(fr) : k \in I}
      BY <3>1
    <3> HIDE DEF I
    <3> QED BY <3>1, <3>2, CountStep DEF Upto
  <2> QED BY <2>2, <2>3, <2>4 DEF Queue, WaitingCalls
<1>6. SUFFICES ASSUME NoException'
               PROVE  /\ NoLaunchAlert(queue')
                      /\ n_rsyncs + Total(queue', "start")
                           = WaitingCalls("rsync")' + Total(queue', "stop")
                      /\ NeverClamped(queue', n_rsyncs)
  <2>1. /\ Queued("start")' = Total(queue', "start")
        /\ Queued("stop")' = Total(queue', "stop")
    BY <1>5, QueuedAll DEF Queued
  <2> QED BY <1>2, <2>1 DEF CountInv
<1>7. /\ NoLaunchAlert(queue)
      /\ n_rsyncs + Total(queue, "start")
           = WaitingCalls("rsync") + Total(queue, "stop")
      /\ NeverClamped(queue, n_rsyncs)
  BY <1>1, <1>2, <1>6, QueuedCounts DEF CountInv, NoException
<1>8. /\ Total(queue, "start") \in Nat
      /\ Total(queue, "stop") \in Nat
      /\ "stop" \in Selectors /\ "alert" \in Selectors
  BY <1>1, <1>3, QueueAppend DEF Selectors
<1>9. Total(queue, "stop") < n_rsyncs + Total(queue, "start")
  BY <1>1, <1>4, <1>5, <1>7, <1>8
<1>10. /\ q \in Queue
       /\ NoLaunchAlert(q)
       /\ Total(q, "start") = Total(queue, "start")
       /\ Total(q, "stop") = Total(queue, "stop") + 1
       /\ NeverClamped(q, n_rsyncs)
  <2>1. /\ q \in Queue
        /\ NoLaunchAlert(queue) => NoLaunchAlert(q)
        /\ \A s : Total(q, s) = Total(queue, s) + IF "stop" = s THEN 1 ELSE 0
    BY <1>1, <1>3, <1>8, QueueAppend
  <2>2. NeverClamped(q, n_rsyncs)
    BY <1>1, <1>3, <1>7, <1>8, <1>9, QueueClamped
  <2> HIDE DEF q
  <2> QED BY <1>7, <1>8, <2>1, <2>2
<1> HIDE DEF q, i
<1>11. CASE queue' = q
  BY <1>1, <1>4, <1>5, <1>7, <1>8, <1>10, <1>11
<1>12. CASE queue' = Added(q, "alert", i)
  <2>1. /\ NoLaunchAlert(queue')
        /\ Total(queue', "start") = Total(q, "start")
        /\ Total(queue', "stop") = Total(q, "stop")
        /\ NeverClamped(queue', n_rsyncs)
    <3>1. /\ NoLaunchAlert(q) => NoLaunchAlert(Added(q, "alert", i))
          /\ \A s : /\ Total(q, s) \in Nat
                    /\ Total(Added(q, "alert", i), s)
                         = Total(q, s) + IF "alert" = s THEN 1 ELSE 0
      BY <1>3, <1>8, <1>10, QueueAppend
    <3>2. NeverClamped(Added(q, "alert", i), n_rsyncs)
      BY <1>1, <1>3, <1>8, <1>10, QueueClamped
    <3> QED BY <1>10, <1>12, <3>1, <3>2
  <2> QED BY <1>1, <1>4, <1>5, <1>7, <1>8, <1>10, <2>1
<1> QED BY <1>2, <1>11, <1>12

\* A selector is performed: in each case the counter and the calls agree with
\* what is left in the queue.
LEMMA CountServe ==
  ASSUME TypeOK, CountInv, Serve, NoException' => NoException
  PROVE  CountInv'
<1> DEFINE sel == Head(queue).sel
           t == Tail(queue)
<1>1. /\ queue \in Queue /\ frames \in Seq(Frames) /\ n_rsyncs \in Nat
      /\ spinning \in BOOLEAN
  BY DEF TypeOK, MacServerTypeOK, Queue
<1>2. queue # <<>> /\ queue' = t /\ editor' = editor
  BY DEF Serve, editVars
<1>3. \/ sel = "start" /\ startRsyncIndicator /\ UNCHANGED <<menu, frames>>
      \/ sel = "stop" /\ stopRsyncIndicator /\ UNCHANGED <<menu, frames>>
      \/ sel = "alert" /\ raiseAlert /\ UNCHANGED iconVars
      \/ sel = "launchAlert" /\ UNCHANGED iconVars
  BY DEF Serve, menuVars
<1>4. /\ t \in Queue
      /\ NoLaunchAlert(queue) => sel # "launchAlert" /\ NoLaunchAlert(t)
      /\ \A s : /\ Total(t, s) \in Nat
                /\ Total(queue, s) = Total(t, s) + IF sel = s THEN 1 ELSE 0
      /\ \A n \in Nat : NeverClamped(queue, n) =>
           /\ sel = "stop" => n > 0
           /\ \A p \in Nat : p = n + (IF sel = "start" THEN 1 ELSE 0)
                                   - (IF sel = "stop" THEN 1 ELSE 0)
                               => NeverClamped(t, p)
  BY <1>1, <1>2, QueueTail
<1> HIDE DEF sel, t
<1>5. /\ Queued("start") = Total(queue, "start")
      /\ Queued("stop") = Total(queue, "stop")
      /\ Queued("start")' = Total(t, "start")
      /\ Queued("stop")' = Total(t, "stop")
  BY <1>1, <1>2, <1>4, QueuedAll DEF Queue, Queued
<1>6. WaitingCalls("rsync") \in Nat
  BY <1>1, CallsCounted
<1>7. frames' = frames => WaitingCalls("rsync")' = WaitingCalls("rsync")
  BY DEF WaitingCalls
<1>8. n_rsyncs' \in Nat /\ (spinning' <=> n_rsyncs' > 0)
  <2>1. spinning <=> n_rsyncs > 0 BY DEF CountInv
  <2>2. CASE startRsyncIndicator
    <3>1. n_rsyncs' \in Nat /\ n_rsyncs' > 0
      BY <1>1, <2>2 DEF startRsyncIndicator
    <3>2. n_rsyncs = 0 \/ n_rsyncs > 0 BY <1>1
    <3>3. spinning' BY <2>1, <2>2, <3>2, Zenon DEF startRsyncIndicator
    <3> QED BY <3>1, <3>3
  <2>3. CASE stopRsyncIndicator
    <3>1. n_rsyncs' \in Nat /\ (n_rsyncs' # 0 <=> n_rsyncs' > 0)
      BY <1>1, <2>3 DEF stopRsyncIndicator
    <3>2. n_rsyncs' # 0 => n_rsyncs > 0
      BY <1>1, <2>3 DEF stopRsyncIndicator
    <3>3. spinning' <=> n_rsyncs' # 0
      BY <2>1, <2>3, <3>2, Zenon DEF stopRsyncIndicator
    <3> QED BY <3>1, <3>3
  <2>4. CASE UNCHANGED iconVars BY <1>1, <2>1, <2>4 DEF iconVars
  <2> QED BY <1>3, <2>2, <2>3, <2>4
<1> HIDE DEF Queued, WaitingCalls
<1>9. ASSUME NoException'
      PROVE  /\ NoLaunchAlert(t)
             /\ n_rsyncs' + Total(t, "start") = WaitingCalls("rsync")' + Total(t, "stop")
             /\ NeverClamped(t, n_rsyncs')
  <2>1. /\ NoLaunchAlert(queue)
        /\ n_rsyncs + Total(queue, "start")
             = WaitingCalls("rsync") + Total(queue, "stop")
        /\ NeverClamped(queue, n_rsyncs)
    BY <1>2, <1>5, <1>9 DEF CountInv
  <2>2. /\ sel # "launchAlert" /\ NoLaunchAlert(t)
        /\ sel = "stop" => n_rsyncs > 0
        /\ \A p \in Nat : p = n_rsyncs + (IF sel = "start" THEN 1 ELSE 0)
                                - (IF sel = "stop" THEN 1 ELSE 0)
                            => NeverClamped(t, p)
    BY <1>1, <1>4, <2>1
  <2>3. /\ Total(t, "start") \in Nat /\ Total(t, "stop") \in Nat
        /\ Total(queue, "start") = Total(t, "start") + IF sel = "start" THEN 1 ELSE 0
        /\ Total(queue, "stop") = Total(t, "stop") + IF sel = "stop" THEN 1 ELSE 0
    BY <1>4
  <2>4. CASE sel = "start"
    <3>1. n_rsyncs' = n_rsyncs + 1 /\ WaitingCalls("rsync")' = WaitingCalls("rsync")
      BY <1>3, <1>7, <2>4 DEF startRsyncIndicator
    <3>2. NeverClamped(t, n_rsyncs') BY <1>8, <2>2, <2>4, <3>1
    <3> QED BY <1>1, <1>6, <2>1, <2>2, <2>3, <2>4, <3>1, <3>2
  <2>5. CASE sel = "stop"
    <3>1. n_rsyncs > 0 BY <2>2, <2>5
    <3>2. n_rsyncs' = n_rsyncs - 1 /\ WaitingCalls("rsync")' = WaitingCalls("rsync")
      BY <1>1, <1>3, <1>7, <2>5, <3>1 DEF stopRsyncIndicator
    <3>3. NeverClamped(t, n_rsyncs') BY <1>1, <1>8, <2>2, <2>5, <3>2
    <3>4. /\ Total(queue, "start") = Total(t, "start")
          /\ Total(queue, "stop") = Total(t, "stop") + 1
      BY <2>3, <2>5
    <3>5. n_rsyncs' + Total(t, "start") = WaitingCalls("rsync")' + Total(t, "stop")
      BY <1>1, <1>6, <2>1, <2>3, <3>2, <3>4
    <3> QED BY <2>2, <3>3, <3>5
  <2>6. CASE sel = "alert"
    <3>1. n_rsyncs' = n_rsyncs
      BY <1>3, <2>6 DEF iconVars
    <3>2. menu # <<>>
      <4> SUFFICES ASSUME menu = <<>> PROVE FALSE OBVIOUS
      <4>1. menu' = <<>> BY <1>3, <2>6 DEF raiseAlert, menuVars
      <4>2. ToSet(menu') = {} BY <4>1 DEF ToSet
      <4> QED BY <1>9, <4>2 DEF NoException
    <3>3. frames' = Append(frames, Frame("alert", Nil))
      BY <1>3, <2>6, <3>2 DEF raiseAlert
    <3>4. WaitingCalls("rsync")' = WaitingCalls("rsync")
      <4>1. WaitingCalls("rsync")' = WaitingCalls("rsync")
              + IF "alert" = "rsync" THEN 1 ELSE 0
        BY <1>1, <3>3, CallsCounted
      <4> QED BY <1>6, <4>1
    <3>5. NeverClamped(t, n_rsyncs') BY <1>1, <2>2, <2>6, <3>1
    <3> QED BY <1>1, <2>1, <2>2, <2>3, <2>6, <3>1, <3>4, <3>5
  <2> QED BY <1>3, <2>2, <2>4, <2>5, <2>6
<1> QED BY <1>2, <1>5, <1>8, <1>9 DEF CountInv

\* launchEditor: an editor that does not start is an exception to come.
LEMMA CountLaunch ==
  ASSUME TypeOK, CountInv, NEW c \in Invocations,
         launchEditor(c) \/ EditorFails(c), NoException' => NoException
  PROVE  CountInv'
<1>1. CASE \E left : Stop(left)
  BY <1>1, CountStop
<1>2. CASE ~ \E left : Stop(left)
  <2>1. ~terminateApp BY <1>2 DEF terminateApp
  <2>2. /\ UNCHANGED <<n_rsyncs, spinning, frames>>
        /\ \/ queue' = queue
           \/ editor' = [editor EXCEPT ![c] = "missing"]
           \/ editor' = [editor EXCEPT ![c] = "failed"]
    BY <2>1 DEF launchEditor, EditorFails, iconVars
  <2>3. CASE queue' = queue
    <3>1. WaitingCalls("rsync")' = WaitingCalls("rsync") BY <2>2 DEF WaitingCalls
    <3> QED BY <2>2, <2>3, <3>1, CountQuiet
  <2>4. CASE editor' # editor /\ queue' # queue
    <3>1. editor'[c] \in {"missing", "failed"}
      BY <2>2, <2>4 DEF TypeOK, MacServerTypeOK
    <3>2. ~NoException' BY <3>1 DEF NoException
    <3> QED BY <2>2, <3>2 DEF CountInv
  <2>5. CASE editor' = editor /\ queue' # queue
    <3>1. editor'[c] \in {"missing", "failed"}
      BY <2>2, <2>5 DEF TypeOK, MacServerTypeOK
    <3>2. ~NoException' BY <3>1 DEF NoException
    <3> QED BY <2>2, <3>2 DEF CountInv
  <2> QED BY <2>3, <2>4, <2>5
<1> QED BY <1>1, <1>2

\* Steps that touch neither the counter nor the queue and leave the calls that
\* wait for an rsync as they are.
LEMMA CountOthers ==
  ASSUME TypeOK, CallsInv, CountInv, NoException' => NoException,
         \/ \E c \in Invocations : PushWriteSeen(c) \/ Deliver(c) \/ ClickItem(c)
                                     \/ poll(c, fs[c] \in Over)
         \/ Dismiss \/ Launch
         \/ \E k \in DOMAIN frames : RsyncReads(k) \/ RsyncWrites(k) \/ RsyncFails(k)
         \/ \E o \in orphans : Orphan(o)
         \/ \E fn \in Fns : Save(fn) \/ Delete(fn)
         \/ \E d \in Docs : RemoteEdit(d)
         \/ UNCHANGED macVars,
         ~ \E left : Stop(left)
  PROVE  CountInv'
<1>1. frames \in Seq(Frames) /\ mirror \in [Fns -> Contents \cup {Nil}]
  BY DEF TypeOK, MacServerTypeOK, WorkspaceTypeOK
<1>2. UNCHANGED <<queue, n_rsyncs, spinning>> =>
        (WaitingCalls("rsync")' = WaitingCalls("rsync") => CountInv')
  BY CountQuiet
<1>3. frames' = frames => WaitingCalls("rsync")' = WaitingCalls("rsync")
  BY DEF WaitingCalls
<1>4. ~terminateApp
  BY DEF terminateApp
<1> USE DEF iconVars, loopVars
<1>5. ASSUME NEW k \in DOMAIN frames, RsyncReads(k) \/ RsyncWrites(k) \/ RsyncFails(k)
      PROVE  CountInv'
  <2>1. /\ DOMAIN frames' = DOMAIN frames
        /\ \A j \in DOMAIN frames : frames'[j].kind = frames[j].kind
    BY <1>1, <1>5, RsyncFrame
  <2>2. WaitingCalls("rsync")' = WaitingCalls("rsync")
    BY <1>1, <2>1, CallsCounted
  <2>3. UNCHANGED <<queue, n_rsyncs, spinning>>
    BY <1>5 DEF RsyncReads, RsyncWrites, RsyncFails
  <2> QED BY <1>2, <2>2, <2>3
<1>6. CASE Dismiss
  <2>1. /\ frames # <<>> /\ frames' = Front(frames) /\ Last(frames).kind = "alert"
        /\ UNCHANGED <<queue, n_rsyncs, spinning>>
    BY <1>4, <1>6 DEF Dismiss
  <2>2. WaitingCalls("rsync") = WaitingCalls("rsync")'
          + IF Last(frames).kind = "rsync" THEN 1 ELSE 0
    BY <1>1, <2>1, CallsCounted
  <2>3. frames' \in Seq(Frames) BY <1>1, <2>1, FrontProperties
  <2>4. WaitingCalls("rsync")' \in Nat
    <3> DEFINE I == {k \in Nat : frames'[k].kind = "rsync"}
    <3>1. Len(frames') \in Nat /\ DOMAIN frames' = 1 .. Len(frames')
      BY <2>3, LenProperties
    <3>2. {k \in DOMAIN frames' : frames'[k].kind = "rsync"}
            = {k \in 1 .. Len(frames') : k \in I}
      BY <3>1
    <3> HIDE DEF I
    <3> QED BY <3>1, <3>2, CountStep DEF Upto, WaitingCalls
  <2>5. WaitingCalls("rsync")' = WaitingCalls("rsync")
    BY <2>1, <2>2, <2>4
  <2> QED BY <1>2, <2>1, <2>5
<1>7. ASSUME NEW c \in Invocations, poll(c, fs[c] \in Over)
      PROVE  CountInv'
  <2>1. UNCHANGED <<queue, n_rsyncs, spinning>>
    BY <1>7 DEF poll
  <2>2. \/ frames' = frames
        \/ frames' = Append(frames, Frame("fatal", c))
    BY <1>7 DEF poll, mkdirForClient, FileDoesNotExist, registerNewPath
  <2>3. CASE frames' = Append(frames, Frame("fatal", c))
    <3>1. WaitingCalls("rsync")' = WaitingCalls("rsync")
            + IF "fatal" = "rsync" THEN 1 ELSE 0
      BY <1>1, <2>3, CallsCounted
    <3>2. WaitingCalls("rsync") \in Nat
      BY <1>1, CallsCounted
    <3>3. WaitingCalls("rsync")' = WaitingCalls("rsync")
      BY <3>1, <3>2
    <3> QED BY <1>2, <2>1, <3>3
  <2> QED BY <1>2, <1>3, <2>1, <2>2, <2>3
<1>8. CASE \/ \E c \in Invocations : PushWriteSeen(c) \/ Deliver(c) \/ ClickItem(c)
           \/ Launch
           \/ \E o \in orphans : Orphan(o)
           \/ \E fn \in Fns : Save(fn) \/ Delete(fn)
           \/ \E d \in Docs : RemoteEdit(d)
           \/ UNCHANGED macVars
  <2>1. UNCHANGED <<queue, n_rsyncs, spinning, frames>>
    BY <1>8
    DEF PushWriteSeen, Deliver, ClickItem, Launch, Orphan, Save, Delete,
        RemoteEdit, macVars, loopless
  <2> QED BY <1>2, <1>3, <2>1
<1> QED BY <1>5, <1>6, <1>7, <1>8

\* The counter in every step.
LEMMA CountInvStep ==
  ASSUME TypeOK, CallsInv, TalkInv, MenuInv, CountInv, [Next]_vars
  PROVE  CountInv'
<1>1. CASE \E left : Stop(left)
  BY <1>1, CountStop
<1>2. CASE ~ \E left : Stop(left)
  <2>1. NoException' => NoException
    BY <1>2, NoExceptionBefore
  <2>2. ~terminateApp /\ ~Reboot
    BY <1>2 DEF terminateApp, Reboot
  <2>3. UNCHANGED vars => UNCHANGED macVars
    BY DEF vars
  <2> QED BY <1>2, <2>1, <2>2, <2>3, NextCases, CountCallback, CountReturns,
             CountServe, CountLaunch, CountOthers DEF ClickQuit
<1> QED BY <1>1, <1>2

-----------------------------------------------------------------------------
(* The order of transfers.                                                 *)

\* Nothing is written behind the back of a call: the stream of an item whose
\* call waits is as it was, and so is the copy, or there are new events.
Steady ==
  \A k \in DOMAIN frames :
    LET i == frames[k].item IN
    frames[k].kind = "rsync" /\ i \in streams' \ dirty'
      => i \in streams \ dirty /\ mirror'[Fn(i)] = mirror[Fn(i)]

Tracked ==
  /\ Steady
  /\ \A i \in streams : mirror'[Fn(i)] # mirror[Fn(i)] => i \in dirty'

\* A write of a copy marks every stream that watches it, or changes nothing.
LEMMA WrittenMarks ==
  ASSUME NEW fn \in Fns, Written(fn), streams \subseteq Invocations,
         \A f \in Fns : f # fn => mirror'[f] = mirror[f], streams' = streams
  PROVE  Tracked
<1>1. \A i \in streams : Fn(i) = fn => Watches(i, fn)
  <2> SUFFICES ASSUME NEW i \in streams, Fn(i) = fn PROVE Watches(i, fn)
    OBVIOUS
  <2>1. fn.npath \in NPaths /\ Folder[fn.npath] \in Folders BY DEF Fns
  <2> QED BY <2>1 DEF Watches
<1>2. \A i \in streams : Fn(i) \in Fns
  BY TargetFacts
<1>3. \A i \in streams : mirror'[Fn(i)] # mirror[Fn(i)] => i \in dirty'
  BY <1>1, <1>2 DEF Written
<1>4. dirty \subseteq dirty'
  BY DEF Written
<1> QED BY <1>3, <1>4 DEF Steady, Tracked

\* Fewer calls, or the same, none of which has read anything since.
LEMMA FreshKept ==
  ASSUME Fresh, Steady, DOMAIN frames' \subseteq DOMAIN frames,
         \A k \in DOMAIN frames' : frames'[k] = frames[k] \/ ~Read(frames'[k])
  PROVE  Fresh'
<1> SUFFICES ASSUME NEW k \in DOMAIN frames', Read(frames'[k]),
                    frames'[k].item \in streams' \ dirty'
             PROVE  frames'[k].snap = mirror'[Fn(frames'[k].item)]
  BY DEF Fresh, Fn, ServerFn, Read
<1>1. frames'[k] = frames[k] /\ Read(frames[k]) /\ frames[k].kind = "rsync"
  BY DEF Read
<1>2. /\ frames[k].item \in streams \ dirty
      /\ mirror'[Fn(frames[k].item)] = mirror[Fn(frames[k].item)]
  BY <1>1 DEF Steady
<1> QED BY <1>1, <1>2 DEF Fresh

\* A call that begins has read nothing.
LEMMA FreshAdded ==
  ASSUME Fresh, Steady, frames \in Seq(Frames),
         NEW kind \in {"rsync", "alert", "fatal"}, NEW i \in Invocations \cup {Nil},
         frames' = Append(frames, Frame(kind, i))
  PROVE  Fresh'
<1>1. /\ Len(frames) \in Nat /\ DOMAIN frames = 1 .. Len(frames)
      /\ DOMAIN frames' = 1 .. Len(frames) + 1
      /\ \A k \in DOMAIN frames : frames'[k] = frames[k]
      /\ frames'[Len(frames) + 1] = Frame(kind, i)
  BY FrameAdded
<1> SUFFICES ASSUME NEW k \in DOMAIN frames', Read(frames'[k]),
                    frames'[k].item \in streams' \ dirty'
             PROVE  frames'[k].snap = mirror'[Fn(frames'[k].item)]
  BY DEF Fresh, Fn, ServerFn, Read
<1>2. k # Len(frames) + 1
  BY <1>1 DEF Read, Frame
<1>3. k \in DOMAIN frames /\ frames'[k] = frames[k]
  BY <1>1, <1>2
<1>4. Read(frames[k]) /\ frames[k].kind = "rsync"
  BY <1>3 DEF Read
<1>5. /\ frames[k].item \in streams \ dirty
      /\ mirror'[Fn(frames[k].item)] = mirror[Fn(frames[k].item)]
  BY <1>3, <1>4 DEF Steady
<1> QED BY <1>3, <1>4, <1>5 DEF Fresh

\* No call waits at first.
LEMMA OrderInit == Init => OrderInv
  BY DEF Init, MacServerInit, OrderInv, Fresh

\* No call waits in a new process.
LEMMA OrderStop == ASSUME NEW left, Stop(left) PROVE OrderInv'
<1>1. DOMAIN frames' = {} BY DEF Stop
<1> QED BY <1>1 DEF OrderInv, Fresh

\* Who writes a copy, and what a step does to the streams of calls that wait.
LEMMA SteadyStep ==
  ASSUME TypeOK, CallsInv, TalkInv, MenuInv, ~Reentrant, [Next]_vars,
         ~ \E left : Stop(left)
  PROVE  Tracked
<1>1. streams \subseteq Invocations /\ menu \in Seq(Invocations \cup ToSet(Fixed))
  BY DEF TypeOK, MacServerTypeOK
<1>2. ~terminateApp /\ ~Reboot
  BY DEF terminateApp, Reboot
<1>3. mirror' = mirror /\ streams' = streams /\ dirty' = dirty => Tracked
  BY DEF Steady, Tracked
<1> USE DEF menuVars, fileVars
<1>4. ASSUME NEW fn \in Fns, Written(fn), streams' = streams,
             \E x : mirror' = [mirror EXCEPT ![fn] = x]
      PROVE  Tracked
  <2>1. \A f \in Fns : f # fn => mirror'[f] = mirror[f]
    BY <1>4 DEF TypeOK, WorkspaceTypeOK
  <2> QED BY <1>1, <1>4, <2>1, WrittenMarks
<1>5. ASSUME NEW e, removeMenuItem(e), mirror' = mirror
      PROVE  Tracked
  BY <1>5 DEF removeMenuItem, Steady, Tracked
<1>6. ASSUME NEW c \in Invocations, PushWriteSeen(c)
      PROVE  Tracked
  <2>1. Fn(c) \in Fns BY TargetFacts
  <2> QED BY <1>4, <1>6, <2>1 DEF PushWriteSeen, PushWrite, loopless
<1>7. ASSUME NEW fn \in Fns, Save(fn) \/ Delete(fn)
      PROVE  Tracked
  BY <1>4, <1>7 DEF Save, Delete, loopless
<1>8. ASSUME NEW i \in Invocations, callback(i)
      PROVE  Tracked
  <2>1. \A k \in DOMAIN frames : frames[k].item # i BY <1>8 DEF callback
  <2>2. mirror' = mirror /\ streams' = streams /\ dirty' = dirty \ {i}
    BY <1>8 DEF callback
  <2> QED BY <2>1, <2>2 DEF Steady, Tracked
<1>9. ASSUME NEW c \in Invocations, poll(c, fs[c] \in Over), UNCHANGED clientVars
      PROVE  Tracked
  <2>1. inbox[c] = "path" => editor[c] = "none"
    BY <1>9, PollTalk DEF clientVars
  <2>2. mirror' = mirror /\ dirty' = dirty
    BY <1>9 DEF poll
  <2>3. \/ streams' = streams
        \/ inbox[c] = "path" /\ streams' = streams \cup {c}
    BY <1>9
    DEF poll, mkdirForClient, FileDoesNotExist, registerNewPath, TypeOK,
        WorkspaceTypeOK, Requests
  <2>4. \A k \in DOMAIN frames : frames[k].kind = "rsync"
                                   => editor[frames[k].item] # "none"
    BY DEF MenuInv
  <2> QED BY <2>1, <2>2, <2>3, <2>4 DEF Steady, Tracked
<1>10. CASE Serve
  <2>1. mirror' = mirror BY <1>10 DEF Serve
  <2>2. \/ streams' = streams /\ dirty' = dirty
        \/ removeMenuItem(menu[1])
    BY <1>10 DEF Serve, raiseAlert
  <2> QED BY <1>3, <1>5, <2>1, <2>2
<1>11. ASSUME NEW i \in Invocations, ClickItem(i)
       PROVE  Tracked
  BY <1>5, <1>11 DEF ClickItem
<1>12. CASE \/ \E c \in Invocations :
                 Deliver(c) \/ launchEditor(c) \/ EditorFails(c)
                 \/ ((Start(c) \/ PushRead(c) \/ PushFail(c) \/ RecvOK(c))
                      /\ UNCHANGED macVars)
            \/ callbackReturns \/ Dismiss \/ Launch
            \/ \E k \in DOMAIN frames :
                 RsyncReads(k) \/ RsyncWrites(k) \/ RsyncFails(k)
            \/ \E o \in orphans : Orphan(o)
            \/ \E d \in Docs : RemoteEdit(d)
            \/ UNCHANGED vars
  <2>1. mirror' = mirror /\ streams' = streams /\ dirty' = dirty
    BY <1>2, <1>12
    DEF Deliver, launchEditor, EditorFails, Start, PushRead, PushFail, RecvOK,
        callbackReturns, Dismiss, Launch, RsyncReads, RsyncWrites, RsyncFails,
        Orphan, RemoteEdit, macVars, vars
  <2> QED BY <1>3, <2>1
<1> QED BY <1>2, <1>6, <1>7, <1>8, <1>9, <1>10, <1>11, <1>12, NextCases
        DEF ClickQuit

\* Every step leaves the calls with the copies they have read, or with new
\* events.
LEMMA OrderStep ==
  ASSUME TypeOK, CallsInv, TalkInv, MenuInv, OrderInv, [Next]_vars
  PROVE  OrderInv'
<1>1. CASE \E left : Stop(left)
  BY <1>1, OrderStop
<1>2. CASE Reentrant
  BY <1>2 DEF OrderInv
<1>3. CASE ~Reentrant /\ ~ \E left : Stop(left)
  <2>1. Fresh /\ Steady
    BY <1>3, SteadyStep DEF OrderInv, Tracked
  <2>2. frames \in Seq(Frames) /\ mirror \in [Fns -> Contents \cup {Nil}]
    BY DEF TypeOK, MacServerTypeOK, WorkspaceTypeOK
  <2>3. ~terminateApp /\ ~Reboot
    BY <1>3 DEF terminateApp, Reboot
  <2>4. ASSUME frames' = frames
        PROVE  Fresh'
    BY <2>1, <2>4, FreshKept
  <2>5. ASSUME frames # <<>>, frames' = Front(frames)
        PROVE  Fresh'
    BY <2>1, <2>2, <2>5, Returned, FreshKept
  <2>6. ASSUME Unwind
        PROVE  Fresh'
    BY <2>1, <2>2, <2>6, Unwound, FreshKept
  <2>7. ASSUME NEW kind \in {"rsync", "alert", "fatal"},
               NEW i \in Invocations \cup {Nil},
               frames' = Append(frames, Frame(kind, i))
        PROVE  Fresh'
    BY <2>1, <2>2, <2>7, FreshAdded
  <2>8. ASSUME NEW k \in DOMAIN frames,
               RsyncReads(k) \/ RsyncWrites(k) \/ RsyncFails(k)
        PROVE  Fresh'
    <3>1. /\ DOMAIN frames' = DOMAIN frames
          /\ \A j \in DOMAIN frames : j # k => frames'[j] = frames[j]
          /\ frames'[k].kind = frames[k].kind /\ frames'[k].item = frames[k].item
          /\ frames[k].item \in Invocations
          /\ RsyncReads(k) => frames'[k].snap = mirror[Fn(frames[k].item)]
          /\ RsyncWrites(k) => frames'[k].exit = "ok"
          /\ RsyncFails(k) => frames'[k].exit = "failed"
      BY <2>2, <2>8, RsyncFrame
    <3>2. CASE RsyncWrites(k) \/ RsyncFails(k)
      <4>1. ~Read(frames'[k]) BY <3>1, <3>2 DEF Read
      <4> QED BY <2>1, <3>1, <4>1, FreshKept
    <3>3. CASE RsyncReads(k)
      <4>1. mirror' = mirror /\ streams' = streams /\ dirty' = dirty
        BY <3>3 DEF RsyncReads, fileVars, menuVars
      <4> SUFFICES ASSUME NEW j \in DOMAIN frames, Read(frames'[j]),
                          frames'[j].item \in streams \ dirty
                   PROVE  frames'[j].snap = mirror[Fn(frames'[j].item)]
        BY <3>1, <4>1 DEF Fresh, Fn, ServerFn, Read
      <4>2. CASE j = k BY <3>1, <3>3, <4>2
      <4>3. CASE j # k BY <2>1, <3>1, <4>3 DEF Fresh
      <4> QED BY <4>2, <4>3
    <3> QED BY <2>8, <3>2, <3>3
  <2>9. ASSUME Serve \/ Dismiss \/ callbackReturns
        PROVE  Fresh'
    BY <2>3, <2>4, <2>5, <2>6, <2>7, <2>9
    DEF Serve, raiseAlert, Dismiss, callbackReturns
  <2>10. ASSUME NEW c \in Invocations,
                poll(c, fs[c] \in Over) \/ callback(c)
         PROVE  Fresh'
    BY <2>4, <2>7, <2>10
    DEF poll, mkdirForClient, FileDoesNotExist, registerNewPath, callback
  <2>11. ASSUME
              \/ \E c \in Invocations :
                   Deliver(c) \/ launchEditor(c) \/ EditorFails(c) \/ ClickItem(c)
                   \/ ((Start(c) \/ PushRead(c) \/ PushFail(c) \/ RecvOK(c))
                        /\ UNCHANGED macVars)
                   \/ PushWriteSeen(c)
              \/ Launch
              \/ \E o \in orphans : Orphan(o)
              \/ \E fn \in Fns : Save(fn) \/ Delete(fn)
              \/ \E d \in Docs : RemoteEdit(d)
              \/ UNCHANGED vars
         PROVE  Fresh'
    <3>1. frames' = frames
      BY <2>3, <2>11
      DEF Deliver, launchEditor, EditorFails, ClickItem, PushWriteSeen, Launch,
          Orphan, Save, Delete, RemoteEdit, macVars, loopVars, loopless, vars
    <3> QED BY <2>4, <3>1
  <2>12. Fresh'
    BY <2>3, <2>8, <2>9, <2>10, <2>11, NextCases DEF ClickQuit
  <2> QED BY <2>12 DEF OrderInv
<1> QED BY <1>1, <1>2, <1>3

-----------------------------------------------------------------------------
(* What holds in every state.                                              *)

\* The invariant holds at first.
LEMMA SyncInit == Init => SyncInv
  BY TypeInit, TalkInit, MenuInit, CountInit, OrderInit DEF SyncInv

\* The inductive invariant is kept by every step.
LEMMA SyncStep == SyncInv /\ [Next]_vars => SyncInv'
<1> SUFFICES ASSUME SyncInv, [Next]_vars PROVE SyncInv'
  OBVIOUS
<1>1. TypeOK /\ CallsInv /\ TalkInv /\ MenuInv /\ CountInv /\ OrderInv
  BY DEF SyncInv
<1>2. TypeOK' /\ CallsInv' BY <1>1, TypeStep
<1>3. TalkInv' BY <1>1, TalkStep
<1>4. MenuInv' BY <1>1, MenuStep
<1>5. CountInv' BY <1>1, CountInvStep
<1>6. OrderInv' BY <1>1, OrderStep
<1> QED BY <1>2, <1>3, <1>4, <1>5, <1>6 DEF SyncInv

\* All parts of the invariant together hold in every state.
THEOREM SyncCorrect == Spec => []SyncInv
  BY SyncInit, SyncStep, PTL DEF Spec

\* Every variable has a value the program can give it, whichever callbacks run
\* inside others and whatever an exception unwinds; in particular no events wait
\* for a stream that has been stopped (WatchFolder.m:111-114).
THEOREM TypeCorrect == Spec => []TypeOK
<1>1. SyncInv => TypeOK BY DEF SyncInv
<1> QED BY <1>1, SyncCorrect, PTL

\* An item of the menu has a stream that works and every stream an item to stop
\* it by, although alerts remove the item that happens to be first
\* (AppDelegate.m:139-152).
THEOREM MenuIsWatchedCorrect == Spec => []MenuIsWatched
<1>1. SyncInv => MenuIsWatched BY DEF SyncInv, MenuInv, MenuIsWatched
<1> QED BY <1>1, SyncCorrect, PTL

\* No two items are for one file, so that one save starts one transfer: the scan
\* of the menu in registerNewPath is enough (AppDelegate.m:163-182).
THEOREM UniqueWatchCorrect == Spec => []UniqueWatch
<1>1. SyncInv => UniqueWatch BY DEF SyncInv, MenuInv
<1> QED BY <1>1, SyncCorrect, PTL

\* The icon turns as long as an rsync runs, however calls of callbacks nest and
\* selectors queue up, until an exception unwinds a call that waits
\* (AppDelegate.m:94-126).
THEOREM IndicatorCountsCorrect == Spec => []IndicatorCounts
<1>1. SyncInv => IndicatorCounts BY DEF SyncInv, CountInv, IndicatorCounts
<1> QED BY <1>1, SyncCorrect, PTL

-----------------------------------------------------------------------------
(* Saves arrive.                                                           *)

\* A call of item i's callback waits for its rsync.
Transfers(i) ==
  \E k \in DOMAIN frames : /\ frames[k].kind = "rsync"
                           /\ frames[k].item = i /\ frames[k].exit = "no"

\* What SavesArrive says of one step and one item, when the transfer ends.
Arrives(i) ==
  Pending(i) /\ ~Pending(i)' /\ NoException
    => \/ remote'[Target[i]] = mirror'[Fn(i)]
       \/ \E k \in DOMAIN frames' :
            frames'[k].item = i /\ frames'[k].exit = "failed"

\* A step that keeps the events and the calls that wait ends no transfer.
LEMMA StillPending ==
  ASSUME NEW i \in Invocations,
         i \in dirty => i \in dirty' \/ Transfers(i)',
         Transfers(i) => Transfers(i)'
  PROVE  Arrives(i)
  BY DEF Arrives, Pending, Transfers

\* Calls that wait are left alone when those that are there stay.
LEMMA StillTransfers ==
  ASSUME NEW i \in Invocations,
         \A k \in DOMAIN frames : frames[k].kind = "rsync" /\ frames[k].exit = "no"
           => k \in DOMAIN frames' /\ frames'[k] = frames[k]
  PROVE  Transfers(i) => Transfers(i)'
  BY DEF Transfers

\* An rsync that reads, ends or fails.
LEMMA RsyncArrives ==
  ASSUME SyncInv, ~Reentrant, NEW i \in streams, NEW k \in DOMAIN frames,
         RsyncReads(k) \/ RsyncWrites(k) \/ RsyncFails(k)
  PROVE  Arrives(i)
<1>1. /\ frames \in Seq(Frames) /\ mirror \in [Fns -> Contents \cup {Nil}]
      /\ remote \in [Docs -> Contents \cup {Nil}] /\ i \in Invocations
      /\ CallsInv /\ Fresh
  BY DEF SyncInv, TypeOK, MacServerTypeOK, WorkspaceTypeOK, OrderInv
<1>2. /\ DOMAIN frames' = DOMAIN frames
      /\ \A j \in DOMAIN frames : /\ frames'[j].kind = frames[j].kind
                                  /\ frames'[j].item = frames[j].item
                                  /\ j # k => frames'[j] = frames[j]
      /\ frames[k].kind = "rsync" /\ frames[k].exit = "no"
      /\ frames[k].item \in Invocations
      /\ RsyncReads(k) => frames'[k].exit = "no"
      /\ RsyncFails(k) => frames'[k].exit = "failed"
  BY <1>1, RsyncFrame
<1>3. dirty' = dirty
  BY DEF RsyncReads, RsyncWrites, RsyncFails
<1>4. CASE RsyncReads(k)
  <2>1. Transfers(i) => Transfers(i)' BY <1>2, <1>4 DEF Transfers
  <2> QED BY <1>1, <1>3, <2>1, StillPending
<1>5. CASE frames[k].item # i
  <2>1. Transfers(i) => Transfers(i)' BY <1>2, <1>5 DEF Transfers
  <2> QED BY <1>1, <1>3, <2>1, StillPending
<1>6. CASE RsyncFails(k) /\ frames[k].item = i
  BY <1>2, <1>6 DEF Arrives
<1>7. CASE RsyncWrites(k) /\ frames[k].item = i
  <2>1. i \in dirty => Pending(i)' BY <1>3 DEF Pending
  <2>2. i \notin dirty => frames[k].snap = mirror[Fn(i)]
    BY <1>1, <1>7 DEF Fresh, RsyncWrites
  <2>3. mirror' = mirror /\ remote'[Target[i]] = frames[k].snap
    BY <1>1, <1>7, TargetFacts DEF RsyncWrites
  <2> QED BY <2>1, <2>2, <2>3 DEF Arrives
<1> QED BY <1>4, <1>5, <1>6, <1>7

\* A selector: only an exception makes the calls that wait go away.
LEMMA ServeArrives ==
  ASSUME SyncInv, NEW i \in streams \cap streams', Serve
  PROVE  Arrives(i)
<1> SUFFICES ASSUME NoException PROVE Arrives(i)
  BY DEF Arrives
<1>1. /\ frames \in Seq(Frames) /\ i \in Invocations /\ queue \in Queue
      /\ NoLaunchAlert(queue) /\ queue # <<>>
  BY DEF SyncInv, TypeOK, MacServerTypeOK, CountInv, Queue, Serve
<1>2. Head(queue).sel # "launchAlert"
  BY <1>1, QueueTail
<1>3. menu # <<>>
  <2>1. menu = <<>> => ToSet(menu) = {} BY DEF ToSet
  <2> QED BY <2>1 DEF NoException
<1>4. \/ UNCHANGED <<dirty, frames>>
      \/ removeMenuItem(menu[1]) /\ frames' = Append(frames, Frame("alert", Nil))
  BY <1>2, <1>3 DEF Serve, raiseAlert
<1>5. CASE UNCHANGED <<dirty, frames>>
  BY <1>1, <1>5, StillPending, StillTransfers
<1>6. CASE removeMenuItem(menu[1]) /\ frames' = Append(frames, Frame("alert", Nil))
  <2>1. i \in dirty => i \in dirty'
    BY <1>6 DEF removeMenuItem
  <2>2. \A k \in DOMAIN frames : k \in DOMAIN frames' /\ frames'[k] = frames[k]
    <3>1. /\ DOMAIN frames = 1 .. Len(frames) /\ Len(frames) \in Nat
          /\ DOMAIN frames' = 1 .. Len(frames) + 1
          /\ \A k \in DOMAIN frames : frames'[k] = frames[k]
      BY <1>1, <1>6, FrameAdded
    <3> QED BY <3>1
  <2> QED BY <1>1, <2>1, <2>2, StillPending, StillTransfers
<1> QED BY <1>4, <1>5, <1>6

\* Calls that return have seen their rsync end; an alert was no transfer.
LEMMA ReturnArrives ==
  ASSUME SyncInv, NEW i \in streams, frames # <<>>, frames' = Front(frames),
         dirty' = dirty, Last(frames).kind = "rsync" => Last(frames).exit # "no"
  PROVE  Arrives(i)
<1>1. frames \in Seq(Frames) /\ i \in Invocations
  BY DEF SyncInv, TypeOK, MacServerTypeOK
<1>2. /\ Len(frames) \in Nat \ {0} /\ DOMAIN frames = 1 .. Len(frames)
      /\ Last(frames) = frames[Len(frames)]
      /\ DOMAIN frames' = 1 .. Len(frames) - 1
      /\ \A k \in DOMAIN frames' : frames'[k] = frames[k]
  BY <1>1, Returned
<1>3. \A k \in DOMAIN frames : frames[k].kind = "rsync" /\ frames[k].exit = "no"
        => k \in DOMAIN frames' /\ frames'[k] = frames[k]
  BY <1>2
<1> QED BY <1>1, <1>3, StillPending, StillTransfers

\* The end of a transfer in every step.
LEMMA ArrivesStep ==
  ASSUME SyncInv, ~Reentrant, [Next]_vars, NEW i \in streams \cap streams'
  PROVE  Arrives(i)
<1>1. frames \in Seq(Frames) /\ i \in Invocations
  BY DEF SyncInv, TypeOK, MacServerTypeOK
<1>2. \A left : ~Stop(left)
  BY DEF Stop
<1>3. ~terminateApp /\ ~Reboot
  BY <1>2 DEF terminateApp, Reboot
<1>4. ASSUME dirty \subseteq dirty', frames' = frames
      PROVE  Arrives(i)
  BY <1>1, <1>4, StillPending, StillTransfers
<1>5. ASSUME NEW kind \in {"rsync", "alert", "fatal"},
             NEW j \in Invocations \cup {Nil},
             frames' = Append(frames, Frame(kind, j)),
             i \in dirty => i \in dirty' \/ (kind = "rsync" /\ j = i)
      PROVE  Arrives(i)
  <2>1. /\ DOMAIN frames = 1 .. Len(frames) /\ Len(frames) \in Nat
        /\ DOMAIN frames' = 1 .. Len(frames) + 1
        /\ \A k \in DOMAIN frames : frames'[k] = frames[k]
        /\ frames'[Len(frames) + 1] = Frame(kind, j)
    BY <1>1, <1>5, FrameAdded
  <2>2. \A k \in DOMAIN frames : k \in DOMAIN frames' /\ frames'[k] = frames[k]
    BY <2>1
  <2>3. kind = "rsync" /\ j = i => Transfers(i)'
    <3>1. Len(frames) + 1 \in DOMAIN frames' BY <2>1
    <3> QED BY <2>1, <3>1 DEF Transfers, Frame
  <2> QED BY <1>1, <1>5, <2>2, <2>3, StillPending, StillTransfers
<1> USE DEF menuVars, loopVars
<1>6. ASSUME NEW c \in Invocations, poll(c, fs[c] \in Over)
      PROVE  Arrives(i)
  BY <1>4, <1>5, <1>6
  DEF poll, mkdirForClient, FileDoesNotExist, registerNewPath
<1>7. ASSUME NEW c \in Invocations, callback(c)
      PROVE  Arrives(i)
  BY <1>5, <1>7 DEF callback
<1>8. CASE callbackReturns
  BY <1>8, ReturnArrives DEF callbackReturns
<1>9. CASE Dismiss
  BY <1>3, <1>9, ReturnArrives DEF Dismiss
<1>10. ASSUME NEW c \in Invocations, ClickItem(c)
       PROVE  Arrives(i)
  <2>1. i # c /\ frames' = frames /\ dirty' = dirty \ {c}
    BY <1>10 DEF ClickItem, removeMenuItem
  <2> QED BY <1>1, <2>1, StillPending, StillTransfers
<1>11. CASE \/ \E c \in Invocations :
                 \/ Deliver(c) \/ launchEditor(c) \/ EditorFails(c)
                 \/ PushWriteSeen(c)
                 \/ /\ Start(c) \/ PushRead(c) \/ PushFail(c) \/ RecvOK(c)
                    /\ UNCHANGED macVars
            \/ Launch
            \/ \E o \in orphans : Orphan(o)
            \/ \E fn \in Fns : Save(fn) \/ Delete(fn)
            \/ \E d \in Docs : RemoteEdit(d)
            \/ UNCHANGED vars
  <2>1. frames' = frames /\ dirty \subseteq dirty'
    BY <1>3, <1>11
    DEF Deliver, launchEditor, EditorFails, PushWriteSeen, Launch, Orphan, Save,
        Delete, RemoteEdit, Written, macVars, loopless, vars
  <2> QED BY <1>4, <2>1
<1>12. ASSUME NEW k \in DOMAIN frames,
              RsyncReads(k) \/ RsyncWrites(k) \/ RsyncFails(k)
       PROVE  Arrives(i)
  BY <1>12, RsyncArrives
<1>13. CASE Serve
  BY <1>13, ServeArrives
<1> QED BY <1>3, <1>6, <1>7, <1>8, <1>9, <1>10, <1>11, <1>12, <1>13, NextCases
        DEF ClickQuit

\* Whatever writes a watched copy is followed by a transfer, and the last one
\* to end leaves the remote file as the copy then is, unless its rsync fails: a
\* callback that waits for its rsync keeps the transfers of a file in order
\* (WatchFolder.m:30-64), if it is not called again while it waits.
THEOREM SavesArriveCorrect == Spec => SavesArrive
<1>1. ASSUME SyncInv, SyncInv', [Next]_vars, ~Reentrant,
             NEW i \in Items \cap Items'
      PROVE  Arrive(i)
  <2>1. i \in streams \cap streams' BY <1>1 DEF SyncInv, MenuInv
  <2>2. \A left : ~Stop(left) BY <2>1 DEF Stop
  <2>3. mirror'[Fn(i)] # mirror[Fn(i)] => i \in dirty'
    BY <1>1, <2>1, <2>2, SteadyStep DEF SyncInv, Tracked
  <2>4. i \in dirty' => Pending(i)' BY DEF Pending
  <2>5. Arrives(i) BY <1>1, <2>1, ArrivesStep
  <2> QED BY <2>3, <2>4, <2>5 DEF Arrive, Arrives
<1>2. SyncInv /\ SyncInv' /\ [Next]_vars
        => [~Reentrant => \A i \in Items \cap Items' : Arrive(i)]_vars
  BY <1>1
<1> QED BY <1>2, SyncCorrect, PTL DEF Spec, SavesArrive

-----------------------------------------------------------------------------
(* The program does what OpenService promises.                             *)

Stages == [c \in Invocations |-> Stage(c)]
Pended == {c \in Invocations : sent[c] = "path" \/ inbox[c] = "path"}
Served == {c \in Invocations : editor[c] # "none"}

\* Nobody has asked and nothing has been served at first.
LEMMA ServiceInit == Init => Service!Init
  BY DEF Init, WorkspaceInit, FsClientInit, MacServerInit, Service!Init, Stage,
         Over

\* The steps of OpenService, in these terms.
LEMMA ServiceSteps ==
  /\ Stages' = Stages /\ Pended' = Pended /\ Served' = Served
       => UNCHANGED Service!vars
  /\ Stages' = Stages /\ Pended' \subseteq Pended /\ Served' = Served
       => Service!Next
  /\ \A c \in Invocations :
       /\ Stages[c] = "working" /\ Stages' = [Stages EXCEPT ![c] = "waiting"]
       /\ Pended' = Pended \cup {c} /\ Served' = Served
       => Service!Next
  /\ \A c \in Invocations :
       /\ c \in Pended /\ Pended' = Pended \ {c}
       /\ Served' = Served \cup {c} /\ Stages' = Stages
       => Service!Next
  /\ \A c \in Invocations :
       /\ Stages[c] = "waiting" /\ c \in Served
       /\ Stages' = [Stages EXCEPT ![c] = "done"]
       /\ Pended' = Pended /\ Served' = Served
       => Service!Next
  /\ \A c \in Invocations :
       /\ Stages[c] = "working" /\ Stages' = [Stages EXCEPT ![c] = "failed"]
       /\ Pended' = Pended /\ Served' = Served
       => Service!Next
<1> USE DEF Stages, Pended, Served
<1>1. Stages' = Stages /\ Pended' = Pended /\ Served' = Served
        => UNCHANGED Service!vars
  BY DEF Service!vars
<1>2. Stages' = Stages /\ Pended' \subseteq Pended /\ Served' = Served
        => Service!Lose
  BY DEF Service!Lose
<1>3. ASSUME NEW c \in Invocations PROVE
        /\ /\ Stages[c] = "working" /\ Stages' = [Stages EXCEPT ![c] = "waiting"]
           /\ Pended' = Pended \cup {c} /\ Served' = Served
           => Service!Ask(c)
        /\ /\ c \in Pended /\ Pended' = Pended \ {c}
           /\ Served' = Served \cup {c} /\ Stages' = Stages
           => Service!Serve(c)
        /\ /\ Stages[c] = "waiting" /\ c \in Served
           /\ Stages' = [Stages EXCEPT ![c] = "done"]
           /\ Pended' = Pended /\ Served' = Served
           => Service!Finish(c)
        /\ /\ Stages[c] = "working" /\ Stages' = [Stages EXCEPT ![c] = "failed"]
           /\ Pended' = Pended /\ Served' = Served
           => Service!GiveUp(c)
  BY DEF Service!Ask, Service!Serve, Service!Finish, Service!GiveUp
<1> HIDE DEF Stages, Pended, Served
<1> QED BY <1>1, <1>2, <1>3 DEF Service!Next

\* How a step of one invocation shows in the stages.
LEMMA StageMoves ==
  ASSUME NEW c \in Invocations, NEW place, fs \in [Invocations -> Places],
         fs' = [fs EXCEPT ![c] = place]
  PROVE  /\ Stages[c] = Stage(c)
         /\ Stage(c)' = Stages[c] => Stages' = Stages
         /\ Stages' = [Stages EXCEPT ![c] = Stage(c)']
  BY DEF Stages, Stage

\* The client's steps: the request is Ask, its failure GiveUp, its end Finish.
LEMMA ServiceClient ==
  ASSUME TypeOK, TalkInv, NEW c \in Invocations, UNCHANGED editor,
         Start(c) \/ PushRead(c) \/ PushWrite(c) \/ PushFail(c) \/ RecvOK(c)
  PROVE  Service!Next \/ UNCHANGED Service!vars
<1>1. /\ fs \in [Invocations -> Places]
      /\ sent \in [Invocations -> Requests \cup {"none"}]
  BY DEF TypeOK, FsClientTypeOK, WorkspaceTypeOK
<1>2. Served' = Served
  BY DEF Served
<1>3. ASSUME fs' = [fs EXCEPT ![c] = "failed"], Stage(c) = "working",
             Pended' = Pended
      PROVE  Service!Next
  <2>1. Stage(c)' = "failed" BY <1>1, <1>3 DEF Stage, Over
  <2>2. Stages[c] = "working" /\ Stages' = [Stages EXCEPT ![c] = "failed"]
    BY <1>1, <1>3, <2>1, StageMoves
  <2> QED BY <1>2, <1>3, <2>2, ServiceSteps
<1>4. ASSUME NEW p \in {"push1", "push2", "mkdir"}, fs' = [fs EXCEPT ![c] = p],
             Stage(c) = "working", Pended' = Pended
      PROVE  UNCHANGED Service!vars
  <2>1. Stage(c)' = "working" BY <1>1, <1>4 DEF Stage, Over
  <2>2. Stages' = Stages BY <1>1, <1>4, <2>1, StageMoves
  <2> QED BY <1>2, <1>4, <2>2, ServiceSteps
<1>5. fs[c] \in {"new", "push1", "push2", "mkdir"} => Stage(c) = "working"
  BY DEF Stage, Over
<1>6. CASE Start(c)
  <2>1. Pended' = Pended BY <1>6 DEF Start, Pended, netVars
  <2> QED BY <1>3, <1>4, <1>5, <1>6, <2>1 DEF Start, Goto
<1>7. CASE PushRead(c)
  <2>1. Stages' = Stages /\ Pended' = Pended
    BY <1>7 DEF PushRead, Stages, Stage, Pended, netVars
  <2> QED BY <1>2, <2>1, ServiceSteps
<1>8. CASE PushWrite(c)
  <2>1. /\ fs' = [fs EXCEPT ![c] = "path"] /\ sent' = [sent EXCEPT ![c] = "path"]
        /\ inbox' = inbox /\ Stage(c) = "working"
    BY <1>5, <1>8 DEF PushWrite, SendRequest, Goto, Pushing
  <2>2. Stage(c)' = "waiting" BY <1>1, <2>1 DEF Stage, Over
  <2>3. Stages[c] = "working" /\ Stages' = [Stages EXCEPT ![c] = "waiting"]
    BY <1>1, <2>1, <2>2, StageMoves
  <2>4. Pended' = Pended \cup {c} BY <1>1, <2>1 DEF Pended
  <2> QED BY <1>2, <2>3, <2>4, ServiceSteps
<1>9. CASE PushFail(c)
  <2>1. fs[c] \in Pushing /\ inbox' = inbox
    BY <1>9 DEF PushFail, Pushing
  <2>2. sent[c] = "none" BY <2>1 DEF TalkInv, Pushing, Waiting
  <2>3. sent' \in {sent, [sent EXCEPT ![c] = "mkdir"]}
    BY <1>9 DEF PushFail, SendRequest
  <2>4. Pended' = Pended BY <1>1, <2>1, <2>2, <2>3 DEF Pended
  <2> QED BY <1>3, <1>4, <1>5, <1>9, <2>4 DEF PushFail, SendRequest, Goto
<1>10. CASE RecvOK(c)
  <2>1. Pended' = Pended BY <1>10 DEF RecvOK, Pended
  <2>2. CASE fs[c] = "mkdir" /\ fs' = [fs EXCEPT ![c] = "push2"]
    BY <1>4, <1>5, <2>1, <2>2
  <2>3. CASE fs[c] = "path" /\ fs' = [fs EXCEPT ![c] = "done"]
    <3>1. Stage(c) = "waiting" BY <2>3 DEF Stage, Over
    <3>2. Stage(c)' = "done" BY <1>1, <2>3 DEF Stage, Over
    <3>3. Stages[c] = "waiting" /\ Stages' = [Stages EXCEPT ![c] = "done"]
      BY <1>1, <2>3, <3>1, <3>2, StageMoves
    <3>4. c \in Served BY <1>10, <2>3 DEF RecvOK, TalkInv, Served
    <3> QED BY <1>2, <2>1, <3>3, <3>4, ServiceSteps
  <2> QED BY <1>10, <2>2, <2>3 DEF RecvOK, Goto
<1> QED BY <1>6, <1>7, <1>8, <1>9, <1>10

\* The server's steps: a "path" message that is handled is Serve, and the end
\* of the process Lose.
LEMMA ServiceServer ==
  ASSUME TypeOK, TalkInv, UNCHANGED fs,
         \/ \E c \in Invocations : Deliver(c) \/ poll(c, fs[c] \in Over)
                                     \/ launchEditor(c) \/ EditorFails(c)
         \/ \E left : Stop(left) /\ UNCHANGED sent
  PROVE  Service!Next \/ UNCHANGED Service!vars
<1>1. /\ Stages' = Stages
      /\ inbox \in [Invocations -> Requests \cup {"none"}]
      /\ sent \in [Invocations -> Requests \cup {"none"}]
      /\ editor \in [Invocations -> {"none", "launching", "opened", "missing",
                                     "failed", "lost"}]
  BY DEF TypeOK, WorkspaceTypeOK, MacServerTypeOK, Stages, Stage
<1>2. ASSUME NEW left, Stop(left), UNCHANGED sent
      PROVE  Service!Next
  <2>1. Pended' \subseteq Pended BY <1>2 DEF Stop, Pended
  <2>2. Served' = Served BY <1>1, <1>2 DEF Stop, Served
  <2> QED BY <1>1, <2>1, <2>2, ServiceSteps
<1>3. ASSUME NEW c \in Invocations, Deliver(c)
      PROVE  UNCHANGED Service!vars
  <2>1. Pended' = Pended
    BY <1>1, <1>3 DEF Deliver, Pended, Requests
  <2>2. Served' = Served
    BY <1>3 DEF Deliver, Served, macVars, editVars
  <2> QED BY <1>1, <2>1, <2>2, ServiceSteps
<1>4. ASSUME NEW c \in Invocations, launchEditor(c) \/ EditorFails(c)
      PROVE  Service!Next \/ UNCHANGED Service!vars
  <2>1. CASE terminateApp
    BY <1>2, <2>1 DEF terminateApp
  <2>2. CASE ~terminateApp
    <3>1. /\ UNCHANGED <<sent, inbox>> /\ editor[c] # "none"
          /\ \E e \in {"missing", "opened", "failed"} :
               editor' = [editor EXCEPT ![c] = e]
      BY <1>4, <2>2, LaunchTalk DEF netVars
    <3>2. Pended' = Pended BY <3>1 DEF Pended
    <3>3. Served' = Served BY <1>1, <3>1 DEF Served
    <3> QED BY <1>1, <3>2, <3>3, ServiceSteps
  <2> QED BY <2>1, <2>2
<1>5. ASSUME NEW c \in Invocations, poll(c, fs[c] \in Over)
      PROVE  Service!Next \/ UNCHANGED Service!vars
  <2>1. inbox' = [inbox EXCEPT ![c] = "none"] /\ sent' = sent
    BY <1>5 DEF poll
  <2>2. sent[c] = "none" BY <1>5 DEF poll, TalkInv
  <2>3. Pended' = Pended \ {c}
    BY <1>1, <2>1, <2>2 DEF Pended
  <2>4. CASE editor' = editor
    <3>1. Served' = Served BY <2>4 DEF Served
    <3> QED BY <1>1, <2>3, <3>1, ServiceSteps
  <2>5. CASE inbox[c] = "path" /\ editor' = [editor EXCEPT ![c] = "launching"]
    <3>1. Served' = Served \cup {c} BY <1>1, <2>5 DEF Served
    <3>2. c \in Pended BY <2>5 DEF Pended
    <3> QED BY <1>1, <2>3, <3>1, <3>2, ServiceSteps
  <2>6. editor' = editor \/ inbox[c] = "path"
    BY <1>1, <1>5 DEF poll, mkdirForClient, Requests
  <2>7. editor' = editor \/ editor' = [editor EXCEPT ![c] = "launching"]
    BY <1>5 DEF poll, mkdirForClient, FileDoesNotExist, registerNewPath
  <2> QED BY <2>4, <2>5, <2>6, <2>7
<1> QED BY <1>2, <1>3, <1>4, <1>5

\* Every step is one that OpenService allows, or does not show.
LEMMA ServiceStep ==
  ASSUME TypeOK, TalkInv, [Next]_vars
  PROVE  Service!Next \/ UNCHANGED Service!vars
<1> DEFINE Kept == Service!Next \/ UNCHANGED Service!vars
<1>1. ASSUME UNCHANGED <<fs, sent, inbox, editor>>
      PROVE  Kept
  <2>1. Stages' = Stages /\ Pended' = Pended /\ Served' = Served
    BY <1>1 DEF Stages, Stage, Pended, Served
  <2> QED BY <2>1, ServiceSteps
<1> HIDE DEF Kept
<1> USE DEF clientVars, netVars, editVars
<1>2. ASSUME NEW c \in Invocations,
             \/ /\ Start(c) \/ PushRead(c) \/ PushFail(c) \/ RecvOK(c)
                /\ UNCHANGED macVars
             \/ PushWriteSeen(c)
      PROVE  Kept
  <2>1. UNCHANGED editor /\ (Start(c) \/ PushRead(c) \/ PushWrite(c)
                               \/ PushFail(c) \/ RecvOK(c))
    BY <1>2 DEF PushWriteSeen, macVars, loopless
  <2> QED BY <2>1, ServiceClient DEF Kept
<1>3. ASSUME NEW c \in Invocations, UNCHANGED clientVars,
             Deliver(c) \/ poll(c, fs[c] \in Over) \/ launchEditor(c)
               \/ EditorFails(c)
      PROVE  Kept
  BY <1>3, ServiceServer DEF Kept
<1>4. ASSUME NEW left, Stop(left), UNCHANGED <<sent, fs>>
      PROVE  Kept
  BY <1>4, ServiceServer DEF Kept
<1>5. ASSUME \/ \E c \in Invocations : callback(c) \/ ClickItem(c)
             \/ callbackReturns \/ Serve \/ Launch
             \/ \E k \in DOMAIN frames :
                  RsyncReads(k) \/ RsyncWrites(k) \/ RsyncFails(k)
             \/ \E o \in orphans : Orphan(o),
             UNCHANGED clientVars
      PROVE  Kept
  BY <1>1, <1>5
  DEF callback, ClickItem, callbackReturns, Serve, Launch, RsyncReads,
      RsyncWrites, RsyncFails, Orphan
<1>6. ASSUME \/ \E fn \in Fns : Save(fn) \/ Delete(fn)
             \/ \E d \in Docs : RemoteEdit(d)
             \/ UNCHANGED vars
      PROVE  Kept
  BY <1>1, <1>6 DEF Save, Delete, RemoteEdit, macVars, loopless, vars
<1>7. ASSUME Dismiss \/ ClickQuit \/ Reboot, UNCHANGED clientVars
      PROVE  Kept
  <2>1. CASE terminateApp
    BY <1>4, <1>7, <2>1 DEF terminateApp
  <2>2. CASE Reboot
    BY <1>4, <1>7, <2>2 DEF Reboot
  <2>3. CASE Dismiss /\ ~terminateApp
    BY <1>1, <1>7, <2>3 DEF Dismiss
  <2> QED BY <1>7, <2>1, <2>2, <2>3 DEF ClickQuit
<1>8. Kept
  BY <1>2, <1>3, <1>5, <1>6, <1>7, NextCases
<1> QED BY <1>8 DEF Kept

\* The client and the Mac server implement OpenService: an invocation ends well
\* only if the server has begun to launch an editor for it, once, because it
\* was asked to, whatever alerts, exceptions, crashes and restarts there are.
THEOREM ServiceCorrect == Spec => ImplementsOpenService
<1>1. SyncInv /\ [Next]_vars => [Service!Next]_(Service!vars)
  BY ServiceStep DEF SyncInv
<1> QED BY <1>1, SyncCorrect, ServiceInit, PTL
        DEF Spec, ImplementsOpenService, Service!Spec
=============================================================================
