------------------------------- MODULE Router -------------------------------
(***************************************************************************)
(* The topic router (src/core/src/routing/emq_routing.c).  A publish holds *)
(* the router's mutex while it stores the payload once and appends a       *)
(* reference to the inbox of every subscription that matches and of every  *)
(* consumer group that does; the subscribers read their inboxes meanwhile, *)
(* the members of a group one shared inbox in turns.  A subscription of    *)
(* its own is here a group of one: its mutex, inbox and cursor are used    *)
(* the same way.                                                           *)
(***************************************************************************)
EXTENDS Naturals, FiniteSets, FiniteSetsExt, Sequences, SequencesExt, TopicMatch

CONSTANTS Subs,         \* subscriptions the application may make
          BoxOf,        \* per subscription, its group or a box of its own
          PatternOf,    \* per box, the pattern
          Topics,       \* the topics published to
          Pollers,      \* subscriptions whose owner keeps calling emq_sub_next
          MaxMsgs, MaxSubs,  \* bounds: messages, subscriptions made,
          MaxRare             \* and retries, seeks and failed appends together

ASSUME RouterAssumption ==
    /\ Pollers \subseteq Subs /\ BoxOf \in [Subs -> DOMAIN PatternOf]
    /\ {MaxMsgs, MaxSubs, MaxRare} \subseteq Nat

VARIABLES payloads,   \* the payload log: per message, its topic
          boxes,      \* per inbox: references, cursor, members, whose turn
          pub,        \* the publish, retry or dead letter that holds the router's mutex
          now,        \* the clock: 1 when the delivery times have passed
          missed,     \* history: <<message, box>> whose append failed
          shares,     \* history: messages taken since the group last changed
          done        \* how many subscriptions and rare events so far

vars == <<payloads, boxes, pub, now, missed, shares, done>>

Boxes == DOMAIN PatternOf
Idle == [msg |-> 0, kind |-> "none", at |-> 0, todo |-> {}]
NoBox == [inbox |-> <<>>, offset |-> 0, members |-> <<>>, turn |-> "none", since |-> 0]

Init ==
    /\ payloads = <<>> /\ pub = Idle /\ now = 0
    /\ boxes = [b \in Boxes |-> NoBox]
    /\ missed = {} /\ shares = [s \in Subs |-> 0]
    /\ done = [subs |-> 0, rare |-> 0]

Live(b) == boxes[b].members # <<>>
Members(b) == ToSet(boxes[b].members)
Active(s) == s \in Members(BoxOf[s])
Count(what) == done' = [done EXCEPT ![what] = @ + 1]
FreshShares(b) == shares' = [s \in Subs |-> IF BoxOf[s] = b THEN 0 ELSE shares[s]]

(* The place of a member in the list. *)
Place(members, s) == CHOOSE k \in DOMAIN members : members[k] = s

\* Mutant: the list ends one member early.
Successor_short(members, s) ==
    LET i == Place(members, s) IN IF i + 1 < Len(members) THEN members[i + 1] ELSE members[1]

(* The member after this one, the first after the last. *)
Successor(members, s) ==
    LET i == Place(members, s) IN IF i < Len(members) THEN members[i + 1] ELSE members[1]

\* Mutant: after the last of the list comes nobody.
RemoveMember_no_wrap(box, s) ==
    [box EXCEPT !.members = RemoveAt(box.members, Place(box.members, s)),
                !.turn = IF box.turn # s THEN box.turn
                         ELSE IF Last(box.members) = s THEN "none" ELSE Successor(box.members, s)]

(* emq_route_group_remove_member *)
RemoveMember(box, s) ==
    [box EXCEPT !.members = RemoveAt(box.members, Place(box.members, s)),
                !.turn = IF box.turn # s THEN box.turn ELSE Successor(box.members, s)]

(* ------------------------ subscribe and unsubscribe -------------------- *)

Subscribe(s) ==
    /\ pub = Idle /\ ~Active(s) /\ done.subs < MaxSubs
    /\ LET b == BoxOf[s]
           box == boxes[b]
       IN
        /\ boxes' = [boxes EXCEPT ![b] =
             IF Live(b) THEN [box EXCEPT !.members = Append(box.members, s)]
             ELSE [NoBox EXCEPT !.members = <<s>>, !.turn = s, !.since = Len(payloads)]]
        /\ FreshShares(b)
    /\ Count("subs")
    /\ UNCHANGED <<payloads, pub, now, missed>>

\* Mutant: without the router's mutex.
Unsubscribe_unlocked(s) ==
    /\ Active(s)
    /\ LET b == BoxOf[s]
           box == boxes[b]
       IN
        /\ boxes' = [boxes EXCEPT ![b] = IF Len(box.members) = 1 THEN NoBox ELSE RemoveMember(box, s)]
        /\ FreshShares(b)
    /\ UNCHANGED <<payloads, pub, now, missed, done>>

(* The last member takes the inbox with it. *)
Unsubscribe(s) ==
    /\ pub = Idle /\ Active(s)
    /\ LET b == BoxOf[s]
           box == boxes[b]
       IN
        /\ boxes' = [boxes EXCEPT ![b] = IF Len(box.members) = 1 THEN NoBox ELSE RemoveMember(box, s)]
        /\ FreshShares(b)
    /\ UNCHANGED <<payloads, pub, now, missed, done>>

(* ------------------------------- publish ------------------------------- *)

(* emq_router_route_ref_locked: the inboxes a topic goes to. *)
Matching == { bt \in Boxes \X Topics : Match(PatternOf[bt[1]], bt[2]) }
Targets(topic) == { b \in Boxes : Live(b) /\ <<b, topic>> \in Matching }

Publish(topic, at) ==
    /\ pub = Idle /\ Len(payloads) < MaxMsgs
    /\ payloads' = Append(payloads, topic)
    /\ pub' = [msg |-> Len(payloads) + 1, kind |-> "new", at |-> at, todo |-> Targets(topic)]
    /\ UNCHANGED <<boxes, now, missed, shares, done>>

(* emq_router_retry and emq_router_dead_letter route a stored payload to a *)
(* topic once more.                                                        *)
Reroute(msg, topic, kind, at) ==
    /\ pub = Idle /\ msg <= Len(payloads) /\ done.rare < MaxRare
    /\ pub' = [msg |-> msg, kind |-> kind, at |-> at, todo |-> Targets(topic)]
    /\ Count("rare")
    /\ UNCHANGED <<payloads, boxes, now, missed, shares>>

AppendRef(b) ==
    /\ b \in pub.todo
    /\ boxes' = [boxes EXCEPT ![b].inbox = Append(@, [msg |-> pub.msg, kind |-> pub.kind, at |-> pub.at])]
    /\ pub' = [pub EXCEPT !.todo = @ \ {b}]
    /\ UNCHANGED <<payloads, now, missed, shares, done>>

(* An append that fails does not keep the others from theirs. *)
AppendFails(b) ==
    /\ b \in pub.todo /\ done.rare < MaxRare
    /\ pub' = [pub EXCEPT !.todo = @ \ {b}]
    /\ missed' = IF pub.kind = "new" THEN missed \cup {<<pub.msg, b>>} ELSE missed
    /\ Count("rare")
    /\ UNCHANGED <<payloads, boxes, now, shares>>

Unlock ==
    /\ pub # Idle /\ pub.todo = {}
    /\ pub' = Idle
    /\ UNCHANGED <<payloads, boxes, now, missed, shares, done>>

(* -------------------------------- consume ------------------------------ *)

(* emq_router_next: a member whose turn it is takes the next reference; a  *)
(* delivery time that has not come holds it and those behind it.           *)
Next_(s) ==
    LET b == BoxOf[s]
        box == boxes[b]
    IN /\ Active(s) /\ box.turn = s
       /\ box.offset < Len(box.inbox) /\ box.inbox[box.offset + 1].at <= now
       /\ boxes' = [boxes EXCEPT ![b].offset = @ + 1, ![b].turn = Successor(box.members, s)]
       /\ shares' = [shares EXCEPT ![s] = @ + 1]
       /\ UNCHANGED <<payloads, pub, now, missed, done>>

(* emq_router_seek; emq_router_replay seeks to the start. *)
Seek(s, offset) ==
    /\ Active(s) /\ done.rare < MaxRare
    /\ boxes' = [boxes EXCEPT ![BoxOf[s]].offset = offset, ![BoxOf[s]].turn = s]
    /\ FreshShares(BoxOf[s])
    /\ Count("rare")
    /\ UNCHANGED <<payloads, pub, now, missed>>

Tick ==
    /\ now = 0 /\ now' = 1
    /\ UNCHANGED <<payloads, boxes, pub, missed, shares, done>>

Next ==
    \/ \E s \in Subs : Subscribe(s) \/ Unsubscribe(s) \/ Next_(s)
    \/ \E s \in Subs, offset \in 0 .. MaxMsgs : Seek(s, offset)
    \/ \E topic \in Topics, at \in {0, 1} : Publish(topic, at)
    \/ \E msg \in 1 .. MaxMsgs, topic \in Topics :
         Reroute(msg, topic, "retry", 1) \/ Reroute(msg, topic, "dead", 0)
    \/ \E b \in Boxes : AppendRef(b) \/ AppendFails(b)
    \/ Unlock \/ Tick

Spec == Init /\ [][Next]_vars

(* A publish goes on, delivery times come, and some owners keep calling. *)
FairSpec ==
    /\ Spec /\ WF_vars(Unlock) /\ WF_vars(Tick)
    /\ \A b \in Boxes : WF_vars(AppendRef(b))
    /\ \A s \in Pollers : WF_vars(Next_(s))
-----------------------------------------------------------------------------
TypeOK ==
    /\ payloads \in Seq(Topics) /\ Len(payloads) <= MaxMsgs
    /\ pub.msg \in 0 .. Len(payloads) /\ pub.todo \subseteq { b \in Boxes : Live(b) }
    /\ \A b \in Boxes : /\ Members(b) \subseteq { s \in Subs : BoxOf[s] = b }
                        /\ IsInjective(boxes[b].members)
                        /\ \A i \in DOMAIN boxes[b].inbox : boxes[b].inbox[i].msg <= Len(payloads)

(* The messages published since the box came to be whose topic has the     *)
(* meaning of its pattern.                                                 *)
Covered == { bt \in Boxes \X Topics : Means(PatternOf[bt[1]], bt[2]) }
Meant(b) == { m \in boxes[b].since + 1 .. Len(payloads) : <<b, payloads[m]>> \in Covered }
Pending(b) == IF pub.kind = "new" /\ b \in pub.todo THEN {pub.msg} ELSE {}
News(b) == { i \in DOMAIN boxes[b].inbox : boxes[b].inbox[i].kind = "new" }

(* emq_router_publish: an inbox holds every message published since the    *)
(* subscription that the pattern, as documented, covers, each once and in  *)
(* the order of the payload log, which is thus the same for all; except    *)
(* those whose publish returned an error for this very inbox.              *)
InboxComplete ==
    \A b \in Boxes : Live(b) =>
        /\ { boxes[b].inbox[i].msg : i \in News(b) }
              = { m \in Meant(b) \ Pending(b) : <<m, b>> \notin missed }
        /\ \A i, j \in News(b) : i < j => boxes[b].inbox[i].msg < boxes[b].inbox[j].msg

(* emq_router_next: the members of a group share its messages evenly: from *)
(* any join, leave or seek on, no member gets two more than another; and   *)
(* rr_next is never left pointing at a subscription that has gone.         *)
EvenShares ==
    /\ \A b \in Boxes : Live(b) => boxes[b].turn \in Members(b)
    /\ \A s, t \in Subs : BoxOf[s] = BoxOf[t] /\ Active(s) /\ Active(t) => shares[s] <= shares[t] + 1

(* If the members keep calling, every inbox is emptied again and again:    *)
(* delivery times, seeks, members that come and go do not stop its turn.   *)
AllTaken == \A b \in Boxes : []<>(~Live(b) \/ boxes[b].offset >= Len(boxes[b].inbox))
=============================================================================
