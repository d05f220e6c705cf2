----------------------------- MODULE Subscriber -----------------------------
(***************************************************************************)
(* xsub_t, which drops the messages of its publishers that match none of   *)
(* its subscriptions (xsub.cpp), and trie_t, which holds those (trie.cpp). *)
(* A prefix is a sequence of characters, which are numbers.                *)
(***************************************************************************)
EXTENDS Integers, Sequences, SequencesExt

CONSTANTS
  SubPrefixes,  \* the prefixes to subscribe to
  Topics,       \* the parts of messages, as sequences of characters
  MaxChanges,   \* bound on subscriptions and unsubscriptions
  MaxFeeds      \* bound on the messages that arrive

ASSUME SubscriberAssumption == {MaxChanges, MaxFeeds} \subseteq Nat

VARIABLES
  subscriptions,  \* the root of the trie
  wanted,         \* wanted[p]: how often the user is subscribed to p
  changes,        \* subscriptions and unsubscriptions so far
  feed,           \* parts that have arrived: [n, first, data, more]
  feeds,          \* messages that have arrived
  xsubMore,       \* the user is in the middle of a message
  message,        \* the part has_in has prepared, in a sequence, if has_message
  got,            \* parts the user has received
  unwanted        \* messages dropped

subscriberVars == <<subscriptions, wanted, changes, feed, feeds, xsubMore, message,
                    got, unwanted>>

-----------------------------------------------------------------------------
(* The trie.  A node has a table of count slots for the characters from    *)
(* min, each empty or with a node in it; a table of one slot is next.node. *)

NewNode == [refcnt |-> 0, min |-> 0, table |-> <<>>, live_nodes |-> 0]

InTable(node, c) == c >= node.min /\ c < node.min + Len(node.table)

\* The table is extended until there is a slot for c.
Extended(node, c) ==
  LET count == Len(node.table)
      slots(n) == [i \in 1 .. n |-> <<>>]
  IN IF InTable(node, c) THEN node
     ELSE IF count = 0 THEN [node EXCEPT !.min = c, !.table = slots(1)]
     ELSE IF node.min < c THEN [node EXCEPT !.table = @ \o slots(c - node.min - count + 1)]
     ELSE [node EXCEPT !.min = c, !.table = slots(node.min - c) \o @]

RECURSIVE add(_, _)
add(node, prefix) ==
  IF prefix = <<>> THEN [node EXCEPT !.refcnt = @ + 1]
  ELSE LET ext == Extended(node, Head(prefix))
           i == Head(prefix) - ext.min + 1
           new == ext.table[i] = <<>>
           child == IF new THEN NewNode ELSE ext.table[i][1]
       IN [ext EXCEPT !.table[i] = <<add(child, Tail(prefix))>>,
                      !.live_nodes = IF new THEN @ + 1 ELSE @]

\* (With a bug: the nodes below are forgotten.)
RedundantIfUnused(node) == node.refcnt = 0
is_redundant(node) == node.refcnt = 0 /\ node.live_nodes = 0

\* A prefix that was not added is ignored.
RECURSIVE rm(_, _)
rm(node, prefix) ==
  IF prefix = <<>>
  THEN [node EXCEPT !.refcnt = IF @ = 0 THEN 0 ELSE @ - 1]
  ELSE IF ~InTable(node, Head(prefix)) THEN node
  ELSE LET i == Head(prefix) - node.min + 1 IN
       IF node.table[i] = <<>> THEN node
       ELSE LET child == rm(node.table[i][1], Tail(prefix)) IN
            IF ~is_redundant(child) THEN [node EXCEPT !.table[i] = <<child>>]
            ELSE [node EXCEPT !.table = IF Len(@) = 1 THEN <<>> ELSE [@ EXCEPT ![i] = <<>>],
                              !.live_nodes = @ - 1]

RECURSIVE check(_, _)
check(node, data) ==
  \/ node.refcnt > 0
  \/ /\ data # <<>> /\ InTable(node, Head(data))
     /\ LET next == node.table[Head(data) - node.min + 1] IN
        next # <<>> /\ check(next[1], Tail(data))

-----------------------------------------------------------------------------
SubscriberInit ==
  /\ subscriptions = NewNode /\ wanted = [p \in SubPrefixes |-> 0] /\ changes = 0
  /\ feed = <<>> /\ feeds = 0 /\ xsubMore = FALSE /\ message = <<>>
  /\ got = <<>> /\ unwanted = {}

streamVars == <<feed, feeds, xsubMore, message, got, unwanted>>

\* setsockopt of SUB, or a subscription message that is sent to XSUB.
subscribe(p) ==
  /\ changes < MaxChanges
  /\ changes' = changes + 1
  /\ subscriptions' = add(subscriptions, p)
  /\ wanted' = [wanted EXCEPT ![p] = @ + 1]
  /\ UNCHANGED streamVars

unsubscribe(p) ==
  /\ changes < MaxChanges
  /\ changes' = changes + 1
  /\ subscriptions' = rm(subscriptions, p)
  /\ wanted' = [wanted EXCEPT ![p] = IF @ = 0 THEN 0 ELSE @ - 1]
  /\ UNCHANGED streamVars

\* A publisher's message arrives in the fair queue, with one part or two.
Feed(parts) ==
  /\ feeds < MaxFeeds
  /\ feeds' = feeds + 1
  /\ feed' = feed \o [i \in DOMAIN parts |-> [n |-> feeds', first |-> i = 1, data |-> parts[i],
                                              more |-> i < Len(parts)]]
  /\ UNCHANGED <<subscriptions, wanted, changes, xsubMore, message, got, unwanted>>

-----------------------------------------------------------------------------
(* recv and has_in.                                                        *)

match(part) == check(subscriptions, part.data)

\* What is left when messages that do not match have been taken off the front.
\* (With a bug: only the part that was looked at is.)
FirstMatchOfParts(parts) == SelectInSeq(parts, match)
FirstMatch(parts) == SelectInSeq(parts, LAMBDA part : part.first /\ match(part))

Skip(k) ==
  unwanted' = unwanted \cup {feed[i].n : i \in 1 .. k}

Return(part) ==
  /\ got' = Append(got, part)
  /\ xsubMore' = part.more

recvPrepared ==
  /\ message # <<>>
  /\ Return(message[1])
  /\ message' = <<>>
  /\ UNCHANGED <<subscriptions, wanted, changes, feed, feeds, unwanted>>

\* The other parts of a message are passed on unseen.
recvMore ==
  /\ message = <<>> /\ xsubMore
  /\ Return(Head(feed))
  /\ feed' = Tail(feed)
  /\ UNCHANGED <<subscriptions, wanted, changes, feeds, message, unwanted>>

\* recv looks for the next message that matches, and so does has_in, which keeps it
\* for the next recv.
Search(prepare) ==
  /\ message = <<>> /\ ~xsubMore /\ feed # <<>>
  /\ LET k == FirstMatch(feed) IN
     IF k = 0
     THEN /\ Skip(Len(feed)) /\ feed' = <<>>
          /\ UNCHANGED <<message, got, xsubMore>>
     ELSE /\ Skip(k - 1) /\ feed' = SubSeq(feed, k + 1, Len(feed))
          /\ IF prepare THEN message' = <<feed[k]>> /\ UNCHANGED <<got, xsubMore>>
             ELSE Return(feed[k]) /\ UNCHANGED message
  /\ UNCHANGED <<subscriptions, wanted, changes, feeds>>

SubscriberNext ==
  \/ \E p \in SubPrefixes : subscribe(p) \/ unsubscribe(p)
  \/ \E topic, rest \in Topics : Feed(<<topic>>) \/ Feed(<<topic, rest>>)
  \/ recvPrepared \/ recvMore
  \/ \E prepare \in BOOLEAN : Search(prepare)
-----------------------------------------------------------------------------
\* The trie stands for the multiset of subscriptions, in whatever order they were
\* made and taken back, and the user gets or loses whole messages, in order, even
\* if the subscriptions change between has_in and recv, or inside a message.
SubscriptionsHold ==
  /\ \A topic \in Topics :
       check(subscriptions, topic) <=> \E p \in SubPrefixes : wanted[p] > 0 /\ IsPrefix(p, topic)
  /\ \A i \in DOMAIN got :
       /\ got[i].first <=> (i = 1 \/ ~got[i - 1].more)
       /\ i > 1 => IF got[i - 1].more THEN got[i].n = got[i - 1].n ELSE got[i].n > got[i - 1].n
       /\ got[i].n \notin unwanted
  /\ xsubMore => feed # <<>> /\ Head(feed).n = Last(got).n
=============================================================================
