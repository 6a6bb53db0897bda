----------------------------- MODULE RouterProofs -----------------------------
(***************************************************************************)
(* The members of a consumer group share its messages evenly, for any      *)
(* subscriptions, groups, patterns and topics: the turn goes round the     *)
(* list of members, those whose turn comes sooner have taken no more than  *)
(* those who come later, and at most one less.  Inboxes are complete, if   *)
(* the matching is what the patterns mean.                                 *)
(***************************************************************************)
EXTENDS Router, SequenceTheorems, TLAPS

Kinds == {"none", "new", "retry", "dead"}
Ref == [msg : Nat, kind : Kinds, at : {0, 1}]
Box == [inbox : Seq(Ref), offset : Nat, members : Seq(Subs), turn : Subs \cup {"none"}, since : Nat]

TypeInv ==
    /\ payloads \in Seq(Topics) /\ Len(payloads) <= MaxMsgs
    /\ boxes \in [Boxes -> Box] /\ shares \in [Subs -> Nat]
    /\ pub \in [msg : 0 .. Len(payloads), kind : Kinds, at : {0, 1}, todo : SUBSET Boxes]
    /\ \A b \in Boxes : \A i \in DOMAIN boxes[b].inbox : boxes[b].inbox[i].msg <= Len(payloads)

\* A publish goes to inboxes that are there.
TodoLive == \A b \in pub.todo : Live(b)

\* A list of members of box b: no one is in it twice.
Group(b, members) ==
    /\ \A i, j \in DOMAIN members : members[i] = members[j] => i = j
    /\ \A i \in DOMAIN members : BoxOf[members[i]] = b

\* From the place p that has the turn on, round the list, i comes before j.
Before(p, i, j) ==
    \/ p <= i /\ i <= j
    \/ p <= i /\ j < p
    \/ j < p /\ i <= j

\* A member has the turn, and going round from it shares grow by one at most.
Round(members, turn, share) ==
    members # <<>> =>
        \E p \in DOMAIN members :
            /\ turn = members[p]
            /\ \A i, j \in DOMAIN members :
                 Before(p, i, j) => /\ share[members[i]] <= share[members[j]]
                                    /\ share[members[j]] <= share[members[i]] + 1

GroupsInv ==
    \A b \in Boxes : /\ Group(b, boxes[b].members)
                     /\ Round(boxes[b].members, boxes[b].turn, shares)

IInv == TypeInv /\ TodoLive /\ GroupsInv

-----------------------------------------------------------------------------
\* The list of members.

\* A list without one of its elements.
LEMMA RemoveAtFact ==
  ASSUME NEW S, NEW q \in Seq(S), NEW i \in 1 .. Len(q)
  PROVE  /\ RemoveAt(q, i) \in Seq(S) /\ Len(RemoveAt(q, i)) = Len(q) - 1
         /\ \A j \in 1 .. Len(q) - 1 : RemoveAt(q, i)[j] = IF j < i THEN q[j] ELSE q[j + 1]
<1> DEFINE a == SubSeq(q, 1, i - 1)
           z == SubSeq(q, i + 1, Len(q))
<1>1. i \in Nat /\ Len(q) \in Nat /\ i <= Len(q) /\ 1 <= i
  OBVIOUS
<1>2. a \in Seq(S) /\ Len(a) = i - 1 /\ \A j \in 1 .. i - 1 : a[j] = q[j]
  BY <1>1, SubSeqProperties
<1>3. z \in Seq(S) /\ Len(z) = Len(q) - i /\ \A j \in 1 .. Len(q) - i : z[j] = q[j + i]
  BY <1>1, SubSeqProperties
<1>4. RemoveAt(q, i) = a \o z
  BY DEF RemoveAt
<1> HIDE DEF a, z
<1>5. /\ a \o z \in Seq(S) /\ Len(a \o z) = Len(a) + Len(z)
      /\ \A j \in 1 .. Len(a) + Len(z) : (a \o z)[j] = IF j <= Len(a) THEN a[j] ELSE z[j - Len(a)]
  BY <1>2, <1>3, ConcatProperties, Zenon
<1>6. Len(a) + Len(z) = Len(q) - 1
  BY <1>1, <1>2, <1>3
<1>7. ASSUME NEW j \in 1 .. Len(q) - 1 PROVE (a \o z)[j] = IF j < i THEN q[j] ELSE q[j + 1]
  <2>1. (a \o z)[j] = IF j <= Len(a) THEN a[j] ELSE z[j - Len(a)]
    BY <1>5, <1>6
  <2>2. CASE j < i
    BY <1>1, <1>2, <2>1, <2>2
  <2>3. CASE ~(j < i)
    <3>1. j - (i - 1) \in 1 .. Len(q) - i /\ j - (i - 1) + i = j + 1
      BY <1>1, <2>3
    <3> QED
      BY <1>1, <1>2, <1>3, <2>1, <2>3, <3>1
  <2> QED
    BY <2>2, <2>3
<1> QED
  BY <1>4, <1>5, <1>6, <1>7

\* The elements of a sequence.
LEMMA MemberFact ==
  ASSUME NEW S, NEW q \in Seq(S), NEW i \in DOMAIN q PROVE q[i] \in S
OBVIOUS

\* The place of a member.
LEMMA PlaceFact ==
  ASSUME NEW members, NEW i \in DOMAIN members
  PROVE  /\ Place(members, members[i]) \in DOMAIN members
         /\ members[Place(members, members[i])] = members[i]
BY DEF Place

\* The members of a box are those of its list.
LEMMA ActiveFact ==
  ASSUME TypeInv, NEW s \in Subs, Active(s)
  PROVE  BoxOf[s] \in Boxes /\ \E i \in DOMAIN boxes[BoxOf[s]].members : boxes[BoxOf[s]].members[i] = s
BY RouterAssumption DEF Active, Members, ToSet, RouterAssumption, Boxes

\* What leaves the histories of the group at zero leaves it even.
LEMMA FreshRound ==
  ASSUME NEW b, NEW members, Group(b, members), NEW p \in DOMAIN members, NEW turn, turn = members[p],
         NEW share, \A i \in DOMAIN members : share[members[i]] = 0
  PROVE  Round(members, turn, share)
BY DEF Round

\* Shares of members of other boxes do not matter.
LEMMA OtherRound ==
  ASSUME NEW b, NEW members, Group(b, members), NEW turn, NEW share, NEW new,
         Round(members, turn, share),
         \A i \in DOMAIN members : new[members[i]] = share[members[i]]
  PROVE  Round(members, turn, new)
BY DEF Round

\* The turn goes to the next: whoever took a message is now the last.
LEMMA TurnRound ==
  ASSUME NEW S, NEW members \in Seq(S), NEW share \in [S -> Nat], NEW b,
         Group(b, members), NEW turn \in S, Round(members, turn, share), members # <<>>
  PROVE  Round(members, Successor(members, turn), [share EXCEPT ![turn] = @ + 1])
<1> DEFINE n == Len(members)
           new == [share EXCEPT ![turn] = @ + 1]
<1>1. PICK p \in DOMAIN members :
        /\ turn = members[p]
        /\ \A i, j \in DOMAIN members :
             Before(p, i, j) => /\ share[members[i]] <= share[members[j]]
                                /\ share[members[j]] <= share[members[i]] + 1
  BY DEF Round
<1>2. n \in Nat /\ DOMAIN members = 1 .. n /\ p \in 1 .. n
  OBVIOUS
<1>3. Place(members, turn) = p
  BY <1>1, PlaceFact DEF Group
<1> DEFINE q == IF p < n THEN p + 1 ELSE 1
<1>4. q \in 1 .. n /\ Successor(members, turn) = members[q]
  BY <1>2, <1>3 DEF Successor
<1>5. \A i \in 1 .. n : share[members[i]] \in Nat
  BY <1>2
<1>6. \A i \in 1 .. n : new[members[i]] = IF i = p THEN share[members[p]] + 1 ELSE share[members[i]]
  BY <1>1, <1>2 DEF Group
<1> HIDE DEF n, new
<1>7. ASSUME NEW i \in 1 .. n, NEW j \in 1 .. n, Before(q, i, j)
      PROVE  new[members[i]] <= new[members[j]] /\ new[members[j]] <= new[members[i]] + 1
  <2>1. CASE i = j
    BY <1>5, <1>6, <2>1
  <2>2. CASE i # j /\ i # p /\ j # p
    <3>1. Before(p, i, j)
      BY <1>2, <1>7, <2>2 DEF Before
    <3> QED
      BY <1>1, <1>2, <1>6, <2>2, <3>1
  <2>3. CASE i # j /\ i = p
    <3>1. FALSE
      BY <1>2, <1>7, <2>3 DEF Before
    <3> QED
      BY <3>1
  <2>4. CASE i # j /\ j = p
    <3>1. Before(p, p, i)
      BY <1>2, <2>4 DEF Before
    <3>2. share[members[p]] <= share[members[i]] /\ share[members[i]] <= share[members[p]] + 1
      BY <1>1, <1>2, <3>1
    <3>3. new[members[i]] = share[members[i]] /\ new[members[j]] = share[members[p]] + 1
      BY <1>6, <2>4
    <3> QED
      BY <1>2, <1>5, <3>2, <3>3
  <2> QED
    BY <2>1, <2>2, <2>3, <2>4
<1> QED
  BY <1>2, <1>4, <1>7 DEF Round, new

-----------------------------------------------------------------------------
\* Every step keeps the invariant.

\* A step that touches one box, and only the shares of its group.
LEMMA BoxKeeps ==
  ASSUME IInv, NEW b \in Boxes, NEW box \in Box, boxes' = [boxes EXCEPT ![b] = box],
         Group(b, box.members), Round(box.members, box.turn, shares'),
         \A s \in Subs : BoxOf[s] # b => shares'[s] = shares[s]
  PROVE  GroupsInv'
<1> SUFFICES ASSUME NEW c \in Boxes
             PROVE  Group(c, boxes'[c].members) /\ Round(boxes'[c].members, boxes'[c].turn, shares')
  BY DEF GroupsInv
<1>1. CASE c = b
  BY <1>1 DEF IInv, TypeInv
<1>2. CASE c # b
  <2>1. boxes'[c] = boxes[c] /\ boxes[c] \in Box
    BY <1>2 DEF IInv, TypeInv
  <2>2. Group(c, boxes[c].members) /\ Round(boxes[c].members, boxes[c].turn, shares)
    BY DEF IInv, GroupsInv
  <2>3. \A i \in DOMAIN boxes[c].members : shares'[boxes[c].members[i]] = shares[boxes[c].members[i]]
    <3> SUFFICES ASSUME NEW i \in DOMAIN boxes[c].members
                 PROVE  shares'[boxes[c].members[i]] = shares[boxes[c].members[i]]
      OBVIOUS
    <3>1. boxes[c].members \in Seq(Subs)
      BY <2>1 DEF Box
    <3>2. boxes[c].members[i] \in Subs /\ BoxOf[boxes[c].members[i]] = c
      BY <2>2, <3>1 DEF Group
    <3> QED
      BY <1>2, <3>2
  <2> QED
    BY <2>1, <2>2, <2>3, OtherRound
<1> QED
  BY <1>1, <1>2

\* FreshShares resets the group's shares and no others.
LEMMA FreshFact ==
  ASSUME TypeInv, NEW b, FreshShares(b)
  PROVE  /\ shares' \in [Subs -> Nat]
         /\ \A s \in Subs : shares'[s] = IF BoxOf[s] = b THEN 0 ELSE shares[s]
BY DEF TypeInv, FreshShares

\* A member comes to the end of the list.
LEMMA SubscribeInv ==
  ASSUME IInv, NEW s \in Subs, Subscribe(s) PROVE IInv'
<1> DEFINE b == BoxOf[s]
           old == boxes[b]
           box == IF Live(b) THEN [old EXCEPT !.members = Append(old.members, s)]
                  ELSE [NoBox EXCEPT !.members = <<s>>, !.turn = s, !.since = Len(payloads)]
<1>1. /\ pub = Idle /\ ~Active(s)
      /\ boxes' = [boxes EXCEPT ![b] = box]
      /\ FreshShares(b) /\ UNCHANGED <<payloads, pub, now, missed>>
  BY DEF Subscribe
<1>2. b \in Boxes /\ old \in Box /\ Group(b, old.members) /\ Round(old.members, old.turn, shares)
  BY RouterAssumption DEF IInv, TypeInv, GroupsInv, RouterAssumption, Boxes
<1>3. shares' \in [Subs -> Nat] /\ \A t \in Subs : shares'[t] = IF BoxOf[t] = b THEN 0 ELSE shares[t]
  BY <1>1, FreshFact DEF IInv
<1>4. /\ old.members \in Seq(Subs) /\ (Live(b) <=> old.members # <<>>)
      /\ \A i \in DOMAIN old.members : old.members[i] # s
  BY <1>1, <1>2 DEF Box, Live, Active, Members, ToSet
<1>5. /\ box \in Box /\ box.members # <<>>
      /\ box.inbox = old.inbox \/ box.inbox = <<>>
      /\ Group(b, box.members) /\ Round(box.members, box.turn, shares')
  <2>1. CASE Live(b)
    <3> DEFINE more == Append(old.members, s)
    <3>1. box = [old EXCEPT !.members = more]
      BY <2>1
    <3>2. more \in Seq(Subs)
      BY <1>4
    <3> HIDE DEF box, more
    <3>8. /\ box.inbox = old.inbox /\ box.turn = old.turn /\ box.members = more
          /\ box \in Box
      BY <1>2, <3>1, <3>2 DEF Box
    <3>3. /\ Len(box.members) = Len(old.members) + 1
          /\ \A i \in DOMAIN box.members :
               box.members[i] = IF i \in DOMAIN old.members THEN old.members[i] ELSE s
          /\ \A i, j \in DOMAIN box.members : i \notin DOMAIN old.members /\ j \notin DOMAIN old.members => i = j
          /\ DOMAIN old.members \subseteq DOMAIN box.members
      BY <1>4, <3>8 DEF more
    <3>4. Group(b, box.members)
      BY <1>2, <1>4, <3>3 DEF Group
    <3>5. PICK p \in DOMAIN old.members : old.turn = old.members[p]
      BY <1>2, <1>4, <2>1 DEF Round
    <3>6. p \in DOMAIN box.members /\ box.turn = box.members[p]
      BY <3>8, <3>3, <3>5
    <3>7. \A i \in DOMAIN box.members : shares'[box.members[i]] = 0
      <4>2. \A i \in DOMAIN box.members : box.members[i] \in Subs
        BY <3>2, <3>8, MemberFact
      <4> QED
        BY <1>3, <3>4, <4>2 DEF Group
    <3>9. Round(box.members, box.turn, shares')
      BY <3>4, <3>6, <3>7, FreshRound
    <3>10. box.members # <<>>
      BY <3>6
    <3> QED
      BY <3>4, <3>8, <3>9, <3>10
  <2>2. CASE ~Live(b)
    <3>1. box = [inbox |-> <<>>, offset |-> 0, members |-> <<s>>, turn |-> s, since |-> Len(payloads)]
      BY <2>2 DEF NoBox
    <3> HIDE DEF box
    <3>2. Len(payloads) \in Nat
      BY DEF IInv, TypeInv
    <3>3. box \in Box /\ Group(b, box.members)
      BY <3>1, <3>2 DEF Box, Group
    <3>4. 1 \in DOMAIN box.members /\ box.turn = box.members[1]
      BY <3>1
    <3>5. \A i \in DOMAIN box.members : shares'[box.members[i]] = 0
      BY <1>3, <3>1
    <3> QED
      BY <3>1, <3>3, <3>4, <3>5, FreshRound
  <2> QED
    BY <2>1, <2>2
<1> HIDE DEF box
<1>6. GroupsInv'
  BY <1>1, <1>2, <1>3, <1>5, BoxKeeps
<1>7. TypeInv'
  <2>1. \A c \in Boxes : \A i \in DOMAIN boxes'[c].inbox : boxes'[c].inbox[i].msg <= Len(payloads)
    BY <1>1, <1>2, <1>5 DEF IInv, TypeInv
  <2> QED
    BY <1>1, <1>2, <1>3, <1>5, <2>1 DEF IInv, TypeInv
<1>8. TodoLive'
  BY <1>1 DEF TodoLive, Idle
<1> QED
  BY <1>6, <1>7, <1>8 DEF IInv

\* A member leaves the list; if it had the turn, the one after it gets it.
LEMMA UnsubscribeInv ==
  ASSUME IInv, NEW s \in Subs, Unsubscribe(s) PROVE IInv'
<1> DEFINE b == BoxOf[s]
           old == boxes[b]
           box == IF Len(old.members) = 1 THEN NoBox ELSE RemoveMember(old, s)
<1>1. /\ pub = Idle /\ Active(s)
      /\ boxes' = [boxes EXCEPT ![b] = box]
      /\ FreshShares(b) /\ UNCHANGED <<payloads, pub, now, missed>>
  BY DEF Unsubscribe
<1>2. b \in Boxes /\ old \in Box /\ Group(b, old.members) /\ Round(old.members, old.turn, shares)
  BY RouterAssumption DEF IInv, TypeInv, GroupsInv, RouterAssumption, Boxes
<1>3. shares' \in [Subs -> Nat] /\ \A t \in Subs : shares'[t] = IF BoxOf[t] = b THEN 0 ELSE shares[t]
  BY <1>1, FreshFact DEF IInv
<1>4. old.members \in Seq(Subs)
  BY <1>2 DEF Box
<1>5. PICK k \in DOMAIN old.members : old.members[k] = s
  BY <1>1, ActiveFact DEF IInv
<1>6. Place(old.members, s) = k
  BY <1>2, <1>5, PlaceFact DEF Group
<1> DEFINE n == Len(old.members)
           left == RemoveAt(old.members, k)
<1>7. n \in Nat /\ DOMAIN old.members = 1 .. n /\ k \in 1 .. n
  BY <1>4
<1>8. /\ box \in Box
      /\ box.inbox = old.inbox \/ box.inbox = <<>>
      /\ Group(b, box.members) /\ Round(box.members, box.turn, shares')
  <2>1. CASE n = 1
    <3>1. box = [inbox |-> <<>>, offset |-> 0, members |-> <<>>, turn |-> "none", since |-> 0]
      BY <2>1 DEF NoBox
    <3> HIDE DEF box
    <3>2. box \in Box
      BY <3>1 DEF Box
    <3> QED
      BY <3>1, <3>2 DEF Group, Round
  <2>2. CASE n # 1
    <3>1. /\ left \in Seq(Subs) /\ DOMAIN left = 1 .. n - 1
          /\ \A j \in 1 .. n - 1 : left[j] = IF j < k THEN old.members[j] ELSE old.members[j + 1]
      BY <1>4, <1>7, RemoveAtFact
    <3>2. box = [old EXCEPT !.members = left,
                            !.turn = IF old.turn # s THEN old.turn ELSE Successor(old.members, s)]
      BY <1>6, <2>2 DEF RemoveMember
    <3> HIDE DEF box, left
    <3>3. /\ box.inbox = old.inbox /\ box.members = left
          /\ box.turn = IF old.turn # s THEN old.turn ELSE Successor(old.members, s)
          /\ box.offset = old.offset /\ box.since = old.since
          /\ box = [inbox |-> box.inbox, offset |-> box.offset, members |-> box.members,
                    turn |-> box.turn, since |-> box.since]
      BY <1>2, <3>2 DEF Box
    <3> HIDE DEF n
    <3>4. Group(b, left)
      <4>1. ASSUME NEW i \in DOMAIN left
            PROVE  \E h \in 1 .. n : left[i] = old.members[h] /\ h = IF i < k THEN i ELSE i + 1
        BY <1>7, <3>1
      <4>2. ASSUME NEW i \in DOMAIN left, NEW j \in DOMAIN left, left[i] = left[j] PROVE i = j
        <5>1. (IF i < k THEN i ELSE i + 1) = (IF j < k THEN j ELSE j + 1)
          BY <1>2, <1>7, <4>1, <4>2 DEF Group
        <5> QED
          BY <1>7, <3>1, <5>1
      <4> QED
        BY <1>2, <1>7, <4>1, <4>2 DEF Group
    <3>5. PICK p \in 1 .. n : old.turn = old.members[p]
      BY <1>2, <1>5, <1>7 DEF Round
    <3>6. \A h \in 1 .. n : h # k => \E i \in DOMAIN left : left[i] = old.members[h]
      <4> SUFFICES ASSUME NEW h \in 1 .. n, h # k PROVE \E i \in DOMAIN left : left[i] = old.members[h]
        OBVIOUS
      <4>1. CASE h < k
        <5>1. h \in 1 .. n - 1 /\ left[h] = old.members[h]
          BY <1>7, <3>1, <4>1
        <5> QED
          BY <3>1, <5>1
      <4>2. CASE ~(h < k)
        <5>1. h - 1 \in 1 .. n - 1 /\ ~(h - 1 < k) /\ h - 1 + 1 = h
          BY <1>7, <4>2
        <5>2. left[h - 1] = old.members[h]
          BY <3>1, <5>1
        <5> QED
          BY <3>1, <5>1, <5>2
      <4> QED
        BY <4>1, <4>2
    <3>7. \E i \in DOMAIN left : left[i] = box.turn
      <4>1. CASE p # k
        <5>1. old.turn # s
          BY <1>2, <1>5, <1>7, <3>5, <4>1 DEF Group
        <5> QED
          BY <3>3, <3>5, <3>6, <4>1, <5>1
      <4>2. CASE p = k
        <5>1. box.turn = Successor(old.members, s)
          BY <1>5, <3>3, <3>5, <4>2
        <5>2. Successor(old.members, s) = IF k < n THEN old.members[k + 1] ELSE old.members[1]
          BY <1>6 DEF Successor, n
        <5>3. CASE k < n
          BY <1>7, <3>6, <5>1, <5>2, <5>3
        <5>4. CASE ~(k < n)
          <6>1. 1 \in 1 .. n /\ 1 # k
            BY <1>7, <2>2, <5>4
          <6> QED
            BY <3>6, <5>1, <5>2, <5>4, <6>1
        <5> QED
          BY <5>3, <5>4
      <4> QED
        BY <4>1, <4>2
    <3>8. \A i \in DOMAIN left : left[i] \in Subs
      BY <3>1, MemberFact
    <3>9. box \in Box
      BY <1>2, <3>1, <3>3, <3>7, <3>8 DEF Box
    <3>10. \A i \in DOMAIN left : shares'[left[i]] = 0
      BY <1>3, <3>4, <3>8 DEF Group
    <3>11. Round(left, box.turn, shares')
      BY <3>4, <3>7, <3>10, FreshRound
    <3> QED
      BY <3>3, <3>4, <3>9, <3>11
  <2> QED
    BY <2>1, <2>2
<1> HIDE DEF box
<1>9. GroupsInv'
  BY <1>1, <1>2, <1>3, <1>8, BoxKeeps
<1>10. TypeInv'
  <2>1. \A c \in Boxes : \A i \in DOMAIN boxes'[c].inbox : boxes'[c].inbox[i].msg <= Len(payloads)
    BY <1>1, <1>2, <1>8 DEF IInv, TypeInv
  <2> QED
    BY <1>1, <1>2, <1>3, <1>8, <2>1 DEF IInv, TypeInv
<1>11. TodoLive'
  BY <1>1 DEF TodoLive, Idle
<1> QED
  BY <1>9, <1>10, <1>11 DEF IInv

\* Steps that leave the inboxes and the histories alone.
LEMMA QuietInv ==
  ASSUME IInv, UNCHANGED <<boxes, shares>>,
         payloads' \in Seq(Topics), Len(payloads') <= MaxMsgs, Len(payloads) <= Len(payloads'),
         pub' \in [msg : 0 .. Len(payloads'), kind : Kinds, at : {0, 1}, todo : SUBSET Boxes],
         \A b \in pub'.todo : Live(b)
  PROVE  IInv'
<1>1. GroupsInv'
  BY DEF IInv, GroupsInv
<1>2. TodoLive'
  BY DEF TodoLive, Live
<1>3. \A b \in Boxes : \A i \in DOMAIN boxes[b].inbox : boxes[b].inbox[i].msg <= Len(payloads')
  <2> SUFFICES ASSUME NEW b \in Boxes, NEW i \in DOMAIN boxes[b].inbox
               PROVE  boxes[b].inbox[i].msg <= Len(payloads')
    OBVIOUS
  <2>1. boxes[b].inbox \in Seq(Ref)
    BY DEF IInv, TypeInv, Box
  <2>2. boxes[b].inbox[i].msg \in Nat
    <3>1. boxes[b].inbox[i] \in Ref
      BY <2>1, MemberFact
    <3> QED
      BY <3>1 DEF Ref
  <2>3. boxes[b].inbox[i].msg <= Len(payloads)
    BY DEF IInv, TypeInv
  <2>4. Len(payloads) \in Nat /\ Len(payloads') \in Nat
    BY DEF IInv, TypeInv
  <2> QED
    BY <2>2, <2>3, <2>4
<1>4. TypeInv'
  BY <1>3 DEF IInv, TypeInv
<1> QED
  BY <1>1, <1>2, <1>4 DEF IInv

LEMMA PublishInv ==
  ASSUME IInv, NEW topic \in Topics, NEW at \in {0, 1}, Publish(topic, at) PROVE IInv'
<1>1. /\ payloads' = Append(payloads, topic) /\ Len(payloads) < MaxMsgs
      /\ pub' = [msg |-> Len(payloads) + 1, kind |-> "new", at |-> at, todo |-> Targets(topic)]
      /\ UNCHANGED <<boxes, shares>>
  BY DEF Publish
<1>2. payloads \in Seq(Topics) /\ Len(payloads) \in Nat /\ MaxMsgs \in Nat
  BY RouterAssumption DEF IInv, TypeInv, RouterAssumption
<1>3. payloads' \in Seq(Topics) /\ Len(payloads') = Len(payloads) + 1
  BY <1>1, <1>2
<1>4. Targets(topic) \subseteq Boxes /\ \A b \in Targets(topic) : Live(b)
  BY DEF Targets
<1>5. pub' \in [msg : 0 .. Len(payloads'), kind : Kinds, at : {0, 1}, todo : SUBSET Boxes]
  <2>1. Len(payloads) + 1 \in 0 .. Len(payloads')
    BY <1>2, <1>3
  <2> QED
    BY <1>1, <1>4, <2>1 DEF Kinds
<1>6. pub'.todo = Targets(topic)
  BY <1>1
<1> QED
  BY <1>1, <1>2, <1>3, <1>4, <1>5, <1>6, QuietInv

LEMMA RerouteInv ==
  ASSUME IInv, NEW msg \in 1 .. MaxMsgs, NEW topic \in Topics, NEW kind \in {"retry", "dead"},
         NEW at \in {0, 1}, Reroute(msg, topic, kind, at)
  PROVE  IInv'
<1>1. /\ msg <= Len(payloads) /\ UNCHANGED <<payloads, boxes, shares>>
      /\ pub' = [msg |-> msg, kind |-> kind, at |-> at, todo |-> Targets(topic)]
  BY DEF Reroute
<1>2. payloads \in Seq(Topics) /\ Len(payloads) \in Nat /\ Len(payloads) <= MaxMsgs
  BY DEF IInv, TypeInv
<1>3. Targets(topic) \subseteq Boxes /\ \A b \in Targets(topic) : Live(b)
  BY DEF Targets
<1>4. msg \in 0 .. Len(payloads)
  BY <1>1, <1>2
<1>5. pub' \in [msg : 0 .. Len(payloads'), kind : Kinds, at : {0, 1}, todo : SUBSET Boxes]
  BY <1>1, <1>3, <1>4 DEF Kinds
<1>6. pub'.todo = Targets(topic)
  BY <1>1
<1> QED
  BY <1>1, <1>2, <1>3, <1>5, <1>6, QuietInv

\* An append that fails, the end of a publish, and the clock.
LEMMA FailsUnlockTickInv ==
  ASSUME IInv, (\E b \in Boxes : AppendFails(b)) \/ Unlock \/ Tick
  PROVE  IInv'
<1>1. UNCHANGED <<payloads, boxes, shares>>
  BY DEF AppendFails, Unlock, Tick
<1>2. /\ payloads \in Seq(Topics) /\ Len(payloads) \in Nat /\ Len(payloads) <= MaxMsgs
      /\ pub \in [msg : 0 .. Len(payloads), kind : Kinds, at : {0, 1}, todo : SUBSET Boxes]
      /\ \A b \in pub.todo : Live(b)
  BY DEF IInv, TypeInv, TodoLive
<1>3. /\ pub' \in [msg : 0 .. Len(payloads), kind : Kinds, at : {0, 1}, todo : SUBSET Boxes]
      /\ \A b \in pub'.todo : Live(b)
  <2>1. ASSUME NEW b \in Boxes, AppendFails(b)
        PROVE  pub' = [pub EXCEPT !.todo = pub.todo \ {b}]
    BY <2>1 DEF AppendFails
  <2>2. CASE \E b \in Boxes : AppendFails(b)
    BY <1>2, <2>1, <2>2
  <2>3. CASE Unlock
    <3>1. pub' = [msg |-> 0, kind |-> "none", at |-> 0, todo |-> {}]
      BY <2>3 DEF Unlock, Idle
    <3> QED
      BY <1>2, <3>1 DEF Kinds
  <2>4. CASE Tick
    BY <1>2, <2>4 DEF Tick
  <2> QED
    BY <2>2, <2>3, <2>4
<1> QED
  BY <1>1, <1>2, <1>3, QuietInv

\* A reference comes to the end of an inbox.
LEMMA AppendRefInv ==
  ASSUME IInv, NEW b \in Boxes, AppendRef(b) PROVE IInv'
<1> DEFINE old == boxes[b]
           ref == [msg |-> pub.msg, kind |-> pub.kind, at |-> pub.at]
           more == Append(old.inbox, ref)
           box == [old EXCEPT !.inbox = more]
<1>1. /\ boxes' = [boxes EXCEPT ![b] = box] /\ pub' = [pub EXCEPT !.todo = pub.todo \ {b}]
      /\ UNCHANGED <<payloads, shares>>
  BY DEF AppendRef
<1>2. /\ old \in Box /\ Group(b, old.members) /\ Round(old.members, old.turn, shares)
      /\ \A i \in DOMAIN old.inbox : old.inbox[i].msg <= Len(payloads)
  BY DEF IInv, TypeInv, GroupsInv
<1>3. /\ payloads \in Seq(Topics) /\ Len(payloads) \in Nat
      /\ pub \in [msg : 0 .. Len(payloads), kind : Kinds, at : {0, 1}, todo : SUBSET Boxes]
  BY DEF IInv, TypeInv
<1>4. ref \in Ref /\ ref.msg <= Len(payloads)
  BY <1>3 DEF Ref
<1> HIDE DEF ref
<1>5. old.inbox \in Seq(Ref)
  BY <1>2 DEF Box
<1>6. more \in Seq(Ref) /\ \A i \in DOMAIN more : more[i].msg <= Len(payloads)
  <2>1. /\ more \in Seq(Ref)
        /\ \A i \in DOMAIN more : IF i \in DOMAIN old.inbox THEN more[i] = old.inbox[i] ELSE more[i] = ref
    BY <1>4, <1>5
  <2> QED
    BY <1>2, <1>4, <2>1
<1> HIDE DEF more
<1>7. /\ box \in Box /\ box.members = old.members /\ box.turn = old.turn /\ box.inbox = more
  BY <1>2, <1>6 DEF Box
<1> HIDE DEF box
<1>8. GroupsInv'
  BY <1>1, <1>2, <1>7, BoxKeeps
<1>9. \A c \in Boxes : \A i \in DOMAIN boxes'[c].inbox : boxes'[c].inbox[i].msg <= Len(payloads)
  BY <1>1, <1>6, <1>7 DEF IInv, TypeInv
<1>10. pub' \in [msg : 0 .. Len(payloads), kind : Kinds, at : {0, 1}, todo : SUBSET Boxes]
  BY <1>1, <1>3
<1>11. TypeInv'
  BY <1>1, <1>7, <1>9, <1>10 DEF IInv, TypeInv
<1>12. TodoLive'
  <2>1. pub'.todo \subseteq pub.todo /\ pub.todo \subseteq Boxes
    BY <1>1, <1>3
  <2>2. \A c \in Boxes : boxes'[c].members = boxes[c].members
    BY <1>1, <1>7 DEF IInv, TypeInv
  <2> QED
    BY <2>1, <2>2 DEF IInv, TodoLive, Live
<1> QED
  BY <1>8, <1>11, <1>12 DEF IInv

\* A member takes a message and passes the turn on.
LEMMA NextInv ==
  ASSUME IInv, NEW s \in Subs, Next_(s) PROVE IInv'
<1> DEFINE b == BoxOf[s]
           old == boxes[b]
           box == [old EXCEPT !.offset = old.offset + 1, !.turn = Successor(old.members, s)]
<1>1. b \in Boxes /\ old \in Box /\ Group(b, old.members) /\ Round(old.members, old.turn, shares)
  BY RouterAssumption DEF IInv, TypeInv, GroupsInv, RouterAssumption, Boxes
<1>2. /\ Active(s) /\ old.turn = s /\ UNCHANGED <<payloads, pub>>
      /\ shares' = [shares EXCEPT ![s] = @ + 1]
  BY DEF Next_
<1>3. boxes' = [boxes EXCEPT ![b] = box]
  BY <1>1 DEF Next_, IInv, TypeInv, Box
<1>4. old.members \in Seq(Subs) /\ shares \in [Subs -> Nat]
  BY <1>1 DEF Box, IInv, TypeInv
<1>5. PICK k \in DOMAIN old.members : old.members[k] = s
  BY <1>2, ActiveFact DEF IInv
<1>6. old.members # <<>>
  BY <1>5
<1>7. Round(old.members, Successor(old.members, s), shares')
  BY <1>1, <1>2, <1>4, <1>6, TurnRound
<1>8. Successor(old.members, s) \in Subs
  <2>1. Len(old.members) \in Nat /\ DOMAIN old.members = 1 .. Len(old.members) /\ k \in DOMAIN old.members
    BY <1>4, <1>5
  <2>2. Place(old.members, s) = k
    BY <1>1, <1>5, PlaceFact DEF Group
  <2>3. \A i \in DOMAIN old.members : old.members[i] \in Subs
    BY <1>4, MemberFact
  <2> QED
    BY <2>1, <2>2, <2>3 DEF Successor
<1> DEFINE next == Successor(old.members, s)
<1> HIDE DEF next
<1>0. box = [old EXCEPT !.offset = old.offset + 1, !.turn = next] /\ next \in Subs
  BY <1>8 DEF next
<1>9. /\ box.members = old.members /\ box.inbox = old.inbox /\ box.turn = next
      /\ box \in Box
  <2> HIDE DEF box
  <2>1. old.offset \in Nat /\ old.offset + 1 \in Nat
    BY <1>1 DEF Box
  <2>2. /\ box.members = old.members /\ box.inbox = old.inbox /\ box.turn = next
        /\ box.since = old.since /\ box.offset = old.offset + 1
        /\ box = [inbox |-> box.inbox, offset |-> box.offset, members |-> box.members,
                  turn |-> box.turn, since |-> box.since]
    BY <1>0, <1>1 DEF Box
  <2> QED
    BY <1>0, <1>1, <2>1, <2>2 DEF Box
<1> HIDE DEF box
<1>10. GroupsInv'
  <2>1. \A t \in Subs : BoxOf[t] # b => shares'[t] = shares[t]
    BY <1>2, <1>4
  <2>2. Round(box.members, box.turn, shares')
    BY <1>7, <1>9 DEF next
  <2> QED
    BY <1>1, <1>3, <1>9, <2>1, <2>2, BoxKeeps
<1>11. \A c \in Boxes : \A i \in DOMAIN boxes'[c].inbox : boxes'[c].inbox[i].msg <= Len(payloads)
  BY <1>1, <1>3, <1>9 DEF IInv, TypeInv
<1>12. shares' \in [Subs -> Nat]
  BY <1>2, <1>4
<1>13. TypeInv'
  BY <1>1, <1>2, <1>3, <1>9, <1>11, <1>12 DEF IInv, TypeInv
<1>14. TodoLive'
  BY <1>2, <1>3, <1>9 DEF IInv, TypeInv, TodoLive, Live
<1> QED
  BY <1>10, <1>13, <1>14 DEF IInv

\* A seek takes the turn; the shares are counted from here.
LEMMA SeekInv ==
  ASSUME IInv, NEW s \in Subs, NEW offset \in 0 .. MaxMsgs, Seek(s, offset) PROVE IInv'
<1> DEFINE b == BoxOf[s]
           old == boxes[b]
           box == [old EXCEPT !.offset = offset, !.turn = s]
<1>1. b \in Boxes /\ old \in Box /\ Group(b, old.members)
  BY RouterAssumption DEF IInv, TypeInv, GroupsInv, RouterAssumption, Boxes
<1>2. Active(s) /\ FreshShares(b) /\ UNCHANGED <<payloads, pub>>
  BY DEF Seek
<1>3. boxes' = [boxes EXCEPT ![b] = box]
  BY <1>1 DEF Seek, IInv, TypeInv, Box
<1>4. shares' \in [Subs -> Nat] /\ \A t \in Subs : shares'[t] = IF BoxOf[t] = b THEN 0 ELSE shares[t]
  BY <1>2, FreshFact DEF IInv
<1>5. old.members \in Seq(Subs) /\ offset \in Nat
  BY <1>1, RouterAssumption DEF Box, RouterAssumption
<1>6. PICK k \in DOMAIN old.members : old.members[k] = s
  BY <1>2, ActiveFact DEF IInv
<1>7. \A i \in DOMAIN old.members : shares'[old.members[i]] = 0
  <2>1. \A i \in DOMAIN old.members : old.members[i] \in Subs
    BY <1>5, MemberFact
  <2> QED
    BY <1>1, <1>4, <2>1 DEF Group
<1>8. Round(old.members, s, shares')
  BY <1>1, <1>6, <1>7, FreshRound
<1>9. box.members = old.members /\ box.inbox = old.inbox /\ box.turn = s /\ box \in Box
  BY <1>1, <1>5 DEF Box
<1> HIDE DEF box
<1>10. GroupsInv'
  BY <1>1, <1>3, <1>4, <1>8, <1>9, BoxKeeps
<1>11. \A c \in Boxes : \A i \in DOMAIN boxes'[c].inbox : boxes'[c].inbox[i].msg <= Len(payloads)
  BY <1>1, <1>3, <1>9 DEF IInv, TypeInv
<1>12. TypeInv'
  BY <1>1, <1>2, <1>3, <1>4, <1>9, <1>11 DEF IInv, TypeInv
<1>13. TodoLive'
  BY <1>2, <1>3, <1>9 DEF IInv, TypeInv, TodoLive, Live
<1> QED
  BY <1>10, <1>12, <1>13 DEF IInv

-----------------------------------------------------------------------------
\* The theorems.

LEMMA InitInv == Init => IInv
<1> SUFFICES ASSUME Init PROVE IInv
  OBVIOUS
<1>1. /\ payloads = <<>> /\ boxes = [b \in Boxes |-> NoBox] /\ shares = [s \in Subs |-> 0]
      /\ pub = [msg |-> 0, kind |-> "none", at |-> 0, todo |-> {}]
  BY DEF Init, Idle
<1>2. NoBox \in Box
  BY DEF NoBox, Box
<1>3. TypeInv
  BY <1>1, <1>2, RouterAssumption DEF TypeInv, NoBox, Kinds, RouterAssumption
<1>4. TodoLive
  BY <1>1 DEF TodoLive
<1>5. GroupsInv
  BY <1>1 DEF GroupsInv, Group, Round, NoBox
<1> QED
  BY <1>3, <1>4, <1>5 DEF IInv

LEMMA NextKeeps == IInv /\ [Next]_vars => IInv'
<1> SUFFICES ASSUME IInv, [Next]_vars PROVE IInv'
  OBVIOUS
<1>1. CASE \E s \in Subs : Subscribe(s) \/ Unsubscribe(s) \/ Next_(s)
  BY <1>1, SubscribeInv, UnsubscribeInv, NextInv
<1>2. CASE \E s \in Subs, offset \in 0 .. MaxMsgs : Seek(s, offset)
  BY <1>2, SeekInv
<1>3. CASE \E topic \in Topics, at \in {0, 1} : Publish(topic, at)
  BY <1>3, PublishInv
<1>4. CASE \E msg \in 1 .. MaxMsgs, topic \in Topics :
             Reroute(msg, topic, "retry", 1) \/ Reroute(msg, topic, "dead", 0)
  BY <1>4, RerouteInv
<1>5. CASE \E b \in Boxes : AppendRef(b)
  BY <1>5, AppendRefInv
<1>6. CASE (\E b \in Boxes : AppendFails(b)) \/ Unlock \/ Tick
  BY <1>6, FailsUnlockTickInv
<1>7. CASE UNCHANGED vars
  <2>1. UNCHANGED <<payloads, boxes, pub, shares>>
    BY <1>7 DEF vars
  <2>2. /\ payloads \in Seq(Topics) /\ Len(payloads) \in Nat /\ Len(payloads) <= MaxMsgs
        /\ pub \in [msg : 0 .. Len(payloads), kind : Kinds, at : {0, 1}, todo : SUBSET Boxes]
        /\ \A b \in pub.todo : Live(b)
    BY DEF IInv, TypeInv, TodoLive
  <2> QED
    BY <2>1, <2>2, QuietInv
<1> QED
  BY <1>1, <1>2, <1>3, <1>4, <1>5, <1>6, <1>7 DEF Next

\* The invariant of emq_routing.c's groups: the turn goes round the list,
\* and shares never fall as one goes round from whoever has it.
THEOREM RouterInvariance == Spec => []IInv
<1> QED
  BY InitInv, NextKeeps, PTL DEF Spec

\* Of any two places of the list, one comes first.
LEMMA EitherBefore ==
  ASSUME NEW p \in Nat, NEW i \in Nat, NEW j \in Nat PROVE Before(p, i, j) \/ Before(p, j, i)
BY DEF Before

\* emq_router_next shares a group's messages evenly among its members, and
\* the turn is always a member's, whatever the subscriptions and groups.
THEOREM SharedEvenly == Spec => []EvenShares
<1>1. ASSUME IInv, NEW s \in Subs, Active(s)
      PROVE  /\ BoxOf[s] \in Boxes /\ boxes[BoxOf[s]].members # <<>>
             /\ \E i \in DOMAIN boxes[BoxOf[s]].members : boxes[BoxOf[s]].members[i] = s
  BY <1>1, ActiveFact DEF IInv
<1>2. ASSUME IInv, NEW b \in Boxes, Live(b) PROVE boxes[b].turn \in Members(b)
  BY <1>2 DEF IInv, GroupsInv, Round, Live, Members, ToSet
<1>3. ASSUME IInv, NEW s \in Subs, NEW t \in Subs, BoxOf[s] = BoxOf[t], Active(s), Active(t)
      PROVE  shares[s] <= shares[t] + 1
  <2> DEFINE members == boxes[BoxOf[s]].members
  <2>1. PICK i \in DOMAIN members : members[i] = s
    BY <1>1, <1>3
  <2>2. PICK j \in DOMAIN members : members[j] = t
    BY <1>1, <1>3
  <2>3. PICK p \in DOMAIN members :
          \A x, y \in DOMAIN members :
             Before(p, x, y) => /\ shares[members[x]] <= shares[members[y]]
                                /\ shares[members[y]] <= shares[members[x]] + 1
    BY <1>1, <1>3 DEF IInv, GroupsInv, Round
  <2>4. members \in Seq(Subs)
    BY <1>1, <1>3 DEF IInv, TypeInv, Box
  <2>5. p \in Nat /\ i \in Nat /\ j \in Nat
    BY <2>4
  <2>6. shares[s] \in Nat /\ shares[t] \in Nat
    BY <1>3 DEF IInv, TypeInv
  <2> HIDE DEF members
  <2>7. CASE Before(p, i, j)
    BY <2>1, <2>2, <2>3, <2>6, <2>7
  <2>8. CASE Before(p, j, i)
    BY <2>1, <2>2, <2>3, <2>6, <2>8
  <2> QED
    BY <2>5, <2>7, <2>8, EitherBefore
<1>4. IInv => EvenShares
  BY <1>2, <1>3 DEF EvenShares
<1> QED
  BY <1>4, RouterInvariance, PTL

\* The router's types: a publish goes to inboxes that are there, no list has
\* a member twice or of another group, no inbox a message not stored.
THEOREM RouterTypes == Spec => []TypeOK
<1>1. ASSUME IInv PROVE pub.todo \subseteq { b \in Boxes : Live(b) }
  BY <1>1 DEF IInv, TypeInv, TodoLive
<1>2. ASSUME IInv, NEW b \in Boxes
      PROVE  /\ Members(b) \subseteq { s \in Subs : BoxOf[s] = b }
             /\ IsInjective(boxes[b].members)
  <2>1. boxes[b].members \in Seq(Subs) /\ Group(b, boxes[b].members)
    BY <1>2 DEF IInv, TypeInv, GroupsInv, Box
  <2>2. \A i \in DOMAIN boxes[b].members : boxes[b].members[i] \in Subs
    BY <2>1, MemberFact
  <2> QED
    BY <2>1, <2>2 DEF Group, Members, ToSet, IsInjective
<1>3. IInv => TypeOK
  BY <1>1, <1>2 DEF TypeOK, IInv, TypeInv
<1> QED
  BY <1>3, RouterInvariance, PTL

-----------------------------------------------------------------------------
\* Inboxes are complete, if the matching is what the patterns mean.

Latest == pub.kind = "new"

\* The references of new messages in an inbox.
Told(inbox) == { inbox[i].msg : i \in { j \in DOMAIN inbox : inbox[j].kind = "new" } }

InOrder(inbox) ==
    \A i, j \in DOMAIN inbox :
        inbox[i].kind = "new" /\ inbox[j].kind = "new" /\ i < j => inbox[i].msg < inbox[j].msg

\* The publish under way is that of the last message stored, and goes to
\* inboxes that were there before it, whose pattern covers it.
StoredInv ==
    /\ \A p \in missed : p[1] \in 0 .. Len(payloads)
    /\ \A b \in Boxes : Live(b) => boxes[b].since <= Len(payloads)
    /\ Latest =>
         /\ pub.msg = Len(payloads) /\ pub.msg > 0
         /\ \A b \in pub.todo : /\ boxes[b].since < pub.msg /\ <<b, payloads[pub.msg]>> \in Covered
                                /\ <<pub.msg, b>> \notin missed

InboxInv ==
    \A b \in Boxes : Live(b) =>
        /\ Told(boxes[b].inbox) = { m \in Meant(b) \ Pending(b) : <<m, b>> \notin missed }
        /\ InOrder(boxes[b].inbox)

MailInv == StoredInv /\ InboxInv

\* An inbox with one more reference.
LEMMA TellMore ==
  ASSUME NEW inbox \in Seq(Ref), NEW r \in Ref
  PROVE  /\ r.kind = "new" => Told(Append(inbox, r)) = Told(inbox) \cup {r.msg}
         /\ r.kind # "new" => Told(Append(inbox, r)) = Told(inbox)
         /\ InOrder(inbox) /\ (r.kind = "new" => \A m \in Told(inbox) : m < r.msg)
              => InOrder(Append(inbox, r))
<1> DEFINE more == Append(inbox, r)
           n == Len(inbox)
<1>1. /\ n \in Nat /\ DOMAIN inbox = 1 .. n /\ DOMAIN more = 1 .. n + 1
      /\ \A i \in 1 .. n : more[i] = inbox[i]
      /\ more[n + 1] = r
  OBVIOUS
<1> HIDE DEF more, n
<1>2. \A i \in 1 .. n + 1 : i \in 1 .. n \/ i = n + 1
  BY <1>1
<1>3. 1 .. n \subseteq 1 .. n + 1 /\ n + 1 \in 1 .. n + 1
  BY <1>1
<1>4. r.kind = "new" => Told(more) = Told(inbox) \cup {r.msg}
  BY <1>1, <1>2, <1>3 DEF Told
<1>5. r.kind # "new" => Told(more) = Told(inbox)
  BY <1>1, <1>2, <1>3 DEF Told
<1>6. ASSUME InOrder(inbox), r.kind = "new" => \A m \in Told(inbox) : m < r.msg PROVE InOrder(more)
  <2> SUFFICES ASSUME NEW i \in 1 .. n + 1, NEW j \in 1 .. n + 1,
                      more[i].kind = "new", more[j].kind = "new", i < j
               PROVE  more[i].msg < more[j].msg
    BY <1>1 DEF InOrder
  <2>1. i \in 1 .. n
    BY <1>1
  <2>2. CASE j \in 1 .. n
    BY <1>1, <1>6, <2>1, <2>2 DEF InOrder
  <2>3. CASE j = n + 1
    <3>1. r.kind = "new" /\ more[i].msg \in Told(inbox)
      BY <1>1, <2>1, <2>3 DEF Told
    <3> QED
      BY <1>1, <1>6, <2>3, <3>1
  <2> QED
    BY <1>2, <2>2, <2>3
<1> QED
  BY <1>4, <1>5, <1>6 DEF more

\* An empty inbox tells nothing.
LEMMA TellNothing == Told(<<>>) = {} /\ InOrder(<<>>)
  BY DEF Told, InOrder

\* Steps that store and route nothing, and leave inboxes as they are or new.
LEMMA MailKeeps ==
  ASSUME IInv, IInv', MailInv, UNCHANGED <<payloads, pub, missed>>,
         \A c \in Boxes : Live(c)' =>
             \/ Live(c) /\ boxes'[c].inbox = boxes[c].inbox /\ boxes'[c].since = boxes[c].since
             \/ pub = Idle /\ boxes'[c].inbox = <<>> /\ boxes'[c].since = Len(payloads)
  PROVE  MailInv'
<1>1. Len(payloads) \in Nat /\ (\A b \in pub.todo : b \in Boxes) /\ pub.todo' = pub.todo
  BY DEF IInv, TypeInv
<1>2. StoredInv'
  <2>1. \A b \in Boxes : Live(b)' => boxes'[b].since <= Len(payloads)
    BY <1>1 DEF MailInv, StoredInv
  <2>2. ASSUME Latest PROVE \A b \in pub.todo : boxes'[b].since < pub.msg
    <3>1. pub # Idle
      BY <2>2 DEF Latest, Idle
    <3>2. \A b \in pub.todo : Live(b)'
      BY DEF IInv, TodoLive
    <3>3. \A b \in pub.todo : boxes'[b].since = boxes[b].since
      BY <1>1, <3>1, <3>2
    <3> QED
      BY <2>2, <3>3 DEF MailInv, StoredInv
  <2> QED
    BY <2>1, <2>2 DEF MailInv, StoredInv, Latest
<1>3. InboxInv'
  <2> SUFFICES ASSUME NEW b \in Boxes, Live(b)'
               PROVE  /\ Told(boxes'[b].inbox) = { m \in Meant(b)' \ Pending(b)' : <<m, b>> \notin missed }
                      /\ InOrder(boxes'[b].inbox)
    BY DEF InboxInv
  <2>1. CASE Live(b) /\ boxes'[b].inbox = boxes[b].inbox /\ boxes'[b].since = boxes[b].since
    <3>1. Meant(b)' = Meant(b) /\ Pending(b)' = Pending(b)
      BY <2>1 DEF Meant, Pending
    <3> QED
      BY <2>1, <3>1 DEF MailInv, InboxInv
  <2>2. CASE pub = Idle /\ boxes'[b].inbox = <<>> /\ boxes'[b].since = Len(payloads)
    <3>1. Meant(b)' = {}
      <4>1. \A m : m \notin Len(payloads) + 1 .. Len(payloads)
        BY <1>1
      <4> QED
        BY <2>2, <4>1 DEF Meant
    <3> QED
      BY <2>2, <3>1, TellNothing
  <2> QED
    BY <2>1, <2>2
<1> QED
  BY <1>2, <1>3 DEF MailInv

LEMMA SubscribeMail ==
  ASSUME IInv, IInv', MailInv, NEW s \in Subs, Subscribe(s) PROVE MailInv'
<1> DEFINE b == BoxOf[s]
<1>1. /\ pub = Idle /\ UNCHANGED <<payloads, pub, missed>>
      /\ boxes' = [boxes EXCEPT ![b] =
           IF Live(b) THEN [boxes[b] EXCEPT !.members = Append(boxes[b].members, s)]
           ELSE [NoBox EXCEPT !.members = <<s>>, !.turn = s, !.since = Len(payloads)]]
  BY DEF Subscribe
<1>2. b \in Boxes /\ boxes[b] \in Box
  BY RouterAssumption DEF IInv, TypeInv, RouterAssumption, Boxes
<1> HIDE DEF b
<1>3. \A c \in Boxes \ {b} : boxes'[c] = boxes[c]
  BY <1>1, <1>2 DEF IInv, TypeInv
<1>4. CASE Live(b)
  <2>1. boxes'[b].inbox = boxes[b].inbox /\ boxes'[b].since = boxes[b].since
    BY <1>1, <1>2, <1>4 DEF IInv, TypeInv, Box
  <2>2. \A c \in Boxes : Live(c)' => Live(c) /\ boxes'[c].inbox = boxes[c].inbox /\ boxes'[c].since = boxes[c].since
    BY <1>3, <1>4, <2>1 DEF Live
  <2> QED
    BY <1>1, <2>2, MailKeeps
<1>5. CASE ~Live(b)
  <2>1. boxes'[b].inbox = <<>> /\ boxes'[b].since = Len(payloads)
    BY <1>1, <1>2, <1>5 DEF IInv, TypeInv, NoBox
  <2>2. \A c \in Boxes : Live(c)' =>
             \/ Live(c) /\ boxes'[c].inbox = boxes[c].inbox /\ boxes'[c].since = boxes[c].since
             \/ pub = Idle /\ boxes'[c].inbox = <<>> /\ boxes'[c].since = Len(payloads)
    BY <1>1, <1>3, <2>1 DEF Live
  <2> QED
    BY <1>1, <2>2, MailKeeps
<1> QED
  BY <1>4, <1>5

\* A leave, a read and a seek change no inbox of a box that stays.
LEMMA ReadMail ==
  ASSUME IInv, IInv', MailInv, NEW s \in Subs,
         Unsubscribe(s) \/ Next_(s) \/ \E offset \in 0 .. MaxMsgs : Seek(s, offset)
  PROVE  MailInv'
<1> DEFINE b == BoxOf[s]
<1>1. UNCHANGED <<payloads, pub, missed>>
  BY DEF Unsubscribe, Next_, Seek
<1>2. b \in Boxes /\ boxes[b] \in Box /\ boxes \in [Boxes -> Box]
  BY RouterAssumption DEF IInv, TypeInv, RouterAssumption, Boxes
<1>3. Active(s)
  BY DEF Unsubscribe, Next_, Seek
<1>4. Live(b)
  BY <1>3, ActiveFact DEF IInv, Live
<1> DEFINE rest == IF Len(boxes[b].members) = 1 THEN NoBox ELSE RemoveMember(boxes[b], s)
<1>5. CASE Unsubscribe(s)
  <2>1. boxes' = [boxes EXCEPT ![b] = rest]
    BY <1>5 DEF Unsubscribe
  <2>2. CASE Len(boxes[b].members) = 1
    <3>1. boxes'[b].members = <<>>
      BY <1>2, <2>1, <2>2 DEF NoBox
    <3>2. \A c \in Boxes : Live(c)' => Live(c) /\ boxes'[c].inbox = boxes[c].inbox /\ boxes'[c].since = boxes[c].since
      BY <1>2, <2>1, <3>1 DEF Live
    <3> QED
      BY <1>1, <3>2, MailKeeps
  <2>3. CASE Len(boxes[b].members) # 1
    <3>1. rest.inbox = boxes[b].inbox /\ rest.since = boxes[b].since
      BY <1>2, <2>3 DEF RemoveMember, Box
    <3> HIDE DEF rest
    <3>2. \A c \in Boxes : Live(c)' => Live(c) /\ boxes'[c].inbox = boxes[c].inbox /\ boxes'[c].since = boxes[c].since
      BY <1>2, <1>4, <2>1, <3>1 DEF Live
    <3> QED
      BY <1>1, <3>2, MailKeeps
  <2> QED
    BY <2>2, <2>3
<1>6. CASE Next_(s)
  <2>1. \E box : /\ box.inbox = boxes[b].inbox /\ box.since = boxes[b].since
                 /\ boxes' = [boxes EXCEPT ![b] = box]
    <3> DEFINE box == [boxes[b] EXCEPT !.offset = boxes[b].offset + 1,
                                       !.turn = Successor(boxes[b].members, s)]
    <3>1. boxes' = [boxes EXCEPT ![b] = box]
      BY <1>2, <1>6 DEF Next_, Box
    <3>2. box.inbox = boxes[b].inbox /\ box.since = boxes[b].since
      BY <1>2 DEF Box
    <3> HIDE DEF box
    <3> QED
      BY <3>1, <3>2
  <2>2. \A c \in Boxes : Live(c)' => Live(c) /\ boxes'[c].inbox = boxes[c].inbox /\ boxes'[c].since = boxes[c].since
    BY <1>2, <1>4, <2>1 DEF Live
  <2> QED
    BY <1>1, <2>2, MailKeeps
<1>7. CASE \E offset \in 0 .. MaxMsgs : Seek(s, offset)
  <2>1. PICK offset \in 0 .. MaxMsgs : Seek(s, offset)
    BY <1>7
  <2>2. boxes' = [boxes EXCEPT ![b] = [boxes[b] EXCEPT !.offset = offset, !.turn = s]]
    BY <1>2, <2>1 DEF Seek, Box
  <2>3. boxes'[b].inbox = boxes[b].inbox /\ boxes'[b].since = boxes[b].since
    BY <1>2, <2>2 DEF Box
  <2>4. \A c \in Boxes : Live(c)' => Live(c) /\ boxes'[c].inbox = boxes[c].inbox /\ boxes'[c].since = boxes[c].since
    BY <1>2, <1>4, <2>2, <2>3 DEF Live
  <2> QED
    BY <1>1, <2>4, MailKeeps
<1> QED
  BY <1>5, <1>6, <1>7

\* A message is stored and its inboxes are found, under one lock.
LEMMA PublishMail ==
  ASSUME Matching = Covered, IInv, MailInv, NEW topic \in Topics, NEW at \in {0, 1}, Publish(topic, at)
  PROVE  MailInv'
<1> DEFINE n == Len(payloads)
<1>1. /\ pub = Idle /\ payloads' = Append(payloads, topic) /\ UNCHANGED <<boxes, missed>>
      /\ pub' = [msg |-> n + 1, kind |-> "new", at |-> at, todo |-> Targets(topic)]
  BY DEF Publish
<1>2. payloads \in Seq(Topics) /\ n \in Nat
  BY DEF IInv, TypeInv
<1>3. /\ Len(payloads') = n + 1 /\ payloads'[n + 1] = topic
      /\ \A m \in 1 .. n : payloads'[m] = payloads[m]
  BY <1>1, <1>2
<1>4. /\ \A b \in Boxes : Live(b) => boxes[b].since \in Nat /\ boxes[b].since <= n
      /\ \A p \in missed : p[1] \in 0 .. n
  BY DEF IInv, TypeInv, Box, MailInv, StoredInv
<1>5. ASSUME NEW b \in Boxes PROVE b \in Targets(topic) <=> Live(b) /\ <<b, topic>> \in Covered
  BY DEF Targets
<1> HIDE DEF n
<1>6. \A b : <<n + 1, b>> \notin missed
  BY <1>2, <1>4
<1>7. StoredInv'
  <2>1. /\ pub'.msg = n + 1 /\ pub'.todo = Targets(topic)
        /\ \A p \in missed : p[1] \in 0 .. n + 1
        /\ \A b \in Boxes : Live(b) => boxes[b].since <= n + 1 /\ boxes[b].since < n + 1
    <3>1. \A p \in missed : p[1] \in 0 .. n + 1
      BY <1>2, <1>4
    <3> QED
      BY <1>1, <1>2, <1>4, <3>1
  <2>2. \A b \in Targets(topic) : b \in Boxes /\ Live(b) /\ <<b, topic>> \in Covered
    BY <1>5 DEF Targets
  <2> QED
    BY <1>1, <1>2, <1>3, <1>6, <2>1, <2>2 DEF StoredInv, Latest, Live
<1>8. InboxInv'
  <2> SUFFICES ASSUME NEW b \in Boxes, Live(b)
               PROVE  /\ Told(boxes[b].inbox) = { m \in Meant(b)' \ Pending(b)' : <<m, b>> \notin missed }
                      /\ InOrder(boxes[b].inbox)
    BY <1>1 DEF InboxInv, Live
  <2>1. Pending(b) = {}
    BY <1>1 DEF Pending, Idle
  <2>2. Pending(b)' = IF <<b, topic>> \in Covered THEN {n + 1} ELSE {}
    BY <1>1, <1>5 DEF Pending
  <2>3. Meant(b)' = Meant(b) \cup IF <<b, topic>> \in Covered THEN {n + 1} ELSE {}
    <3>1. \A m : m \in boxes[b].since + 1 .. n + 1 <=> m \in boxes[b].since + 1 .. n \/ m = n + 1
      BY <1>2, <1>4
    <3>2. \A m \in boxes[b].since + 1 .. n : payloads'[m] = payloads[m]
      BY <1>2, <1>3, <1>4
    <3> QED
      BY <1>1, <1>3, <3>1, <3>2 DEF Meant, n
  <2>4. n + 1 \notin Meant(b)
    BY <1>2 DEF Meant, n
  <2>5. { m \in Meant(b)' \ Pending(b)' : <<m, b>> \notin missed }
          = { m \in Meant(b) \ Pending(b) : <<m, b>> \notin missed }
    BY <2>1, <2>2, <2>3, <2>4
  <2> QED
    BY <2>5 DEF MailInv, InboxInv
<1> QED
  BY <1>7, <1>8 DEF MailInv

\* What is routed once more is not new; the end of a publish leaves nothing pending.
LEMMA OtherMail ==
  ASSUME IInv, MailInv, UNCHANGED <<payloads, boxes, missed>>,
         \/ pub.kind # "new" /\ pub'.kind # "new"
         \/ pub.todo = {} /\ pub'.kind # "new"
         \/ pub' = pub
  PROVE  MailInv'
<1>1. \A b \in Boxes : Pending(b)' = Pending(b) /\ Meant(b)' = Meant(b) /\ (Live(b)' <=> Live(b))
  BY DEF Pending, Meant, Live
<1>2. StoredInv'
  BY DEF MailInv, StoredInv, Latest, Live
<1>3. InboxInv'
  BY <1>1 DEF MailInv, InboxInv
<1> QED
  BY <1>2, <1>3 DEF MailInv

LEMMA AppendRefMail ==
  ASSUME IInv, MailInv, NEW b \in Boxes, AppendRef(b) PROVE MailInv'
<1> DEFINE ref == [msg |-> pub.msg, kind |-> pub.kind, at |-> pub.at]
<1>1. /\ boxes' = [boxes EXCEPT ![b] = [boxes[b] EXCEPT !.inbox = Append(boxes[b].inbox, ref)]]
      /\ pub' = [pub EXCEPT !.todo = pub.todo \ {b}]
      /\ b \in pub.todo /\ UNCHANGED <<payloads, missed>>
  BY DEF AppendRef
<1>2. /\ boxes \in [Boxes -> Box] /\ boxes[b] \in Box /\ boxes[b].inbox \in Seq(Ref)
      /\ pub \in [msg : 0 .. Len(payloads), kind : Kinds, at : {0, 1}, todo : SUBSET Boxes]
      /\ Len(payloads) \in Nat
  BY DEF IInv, TypeInv, Box
<1>3. /\ pub'.msg = pub.msg /\ pub'.kind = pub.kind /\ pub'.todo = pub.todo \ {b}
  BY <1>1, <1>2
<1>4. ref \in Ref /\ ref.msg = pub.msg /\ ref.kind = pub.kind
  BY <1>2 DEF Ref
<1> HIDE DEF ref
<1>5. /\ \A c \in Boxes \ {b} : boxes'[c] = boxes[c]
      /\ boxes'[b].inbox = Append(boxes[b].inbox, ref)
      /\ \A c \in Boxes : boxes'[c].since = boxes[c].since /\ (Live(c)' <=> Live(c))
  BY <1>1, <1>2 DEF Box, Live
<1>6. StoredInv'
  BY <1>1, <1>2, <1>3, <1>5 DEF MailInv, StoredInv, Latest
<1>7. \A c \in Boxes : Meant(c)' = Meant(c)
  BY <1>1, <1>5 DEF Meant
<1>8. \A c \in Boxes \ {b} : Pending(c)' = Pending(c)
  BY <1>3 DEF Pending
<1>9. Pending(b)' = {} /\ Pending(b) = (IF pub.kind = "new" THEN {pub.msg} ELSE {})
  BY <1>1, <1>3 DEF Pending
<1>10. Live(b)
  BY <1>1 DEF IInv, TodoLive
<1>11. /\ Told(boxes[b].inbox) = { m \in Meant(b) \ Pending(b) : <<m, b>> \notin missed }
       /\ InOrder(boxes[b].inbox)
  BY <1>10 DEF MailInv, InboxInv
<1>12. Told(boxes'[b].inbox) = { m \in Meant(b) : <<m, b>> \notin missed } /\ InOrder(boxes'[b].inbox)
  <2>1. CASE pub.kind # "new"
    BY <1>2, <1>4, <1>5, <1>9, <1>11, <2>1, TellMore
  <2>2. CASE pub.kind = "new"
    <3>1. /\ pub.msg = Len(payloads) /\ boxes[b].since < pub.msg
          /\ <<b, payloads[pub.msg]>> \in Covered /\ <<pub.msg, b>> \notin missed
      BY <1>1, <2>2 DEF MailInv, StoredInv, Latest
    <3>2. boxes[b].since \in Nat
      BY <1>2 DEF Box
    <3>3. pub.msg \in Meant(b) /\ \A m \in Meant(b) : m \in Nat /\ m <= pub.msg
      BY <1>2, <3>1, <3>2 DEF Meant
    <3>4. \A m \in Told(boxes[b].inbox) : m < pub.msg
      BY <1>2, <1>9, <1>11, <2>2, <3>1, <3>3
    <3>5. Told(boxes'[b].inbox) = Told(boxes[b].inbox) \cup {pub.msg} /\ InOrder(boxes'[b].inbox)
      <4>1. ref.kind = "new" /\ \A m \in Told(boxes[b].inbox) : m < ref.msg
        BY <1>4, <2>2, <3>4
      <4>2. Told(Append(boxes[b].inbox, ref)) = Told(boxes[b].inbox) \cup {ref.msg}
            /\ InOrder(Append(boxes[b].inbox, ref))
        BY <1>2, <1>4, <1>11, <4>1, TellMore
      <4> QED
        BY <1>4, <1>5, <4>2
    <3> QED
      BY <1>9, <1>11, <2>2, <3>1, <3>3, <3>5
  <2> QED
    BY <2>1, <2>2
<1>13. InboxInv'
  <2> SUFFICES ASSUME NEW c \in Boxes, Live(c)
               PROVE  /\ Told(boxes'[c].inbox) = { m \in Meant(c)' \ Pending(c)' : <<m, c>> \notin missed }
                      /\ InOrder(boxes'[c].inbox)
    BY <1>1, <1>5 DEF InboxInv
  <2>1. CASE c = b
    BY <1>7, <1>9, <1>12, <2>1
  <2>2. CASE c # b
    BY <1>5, <1>7, <1>8, <2>2 DEF MailInv, InboxInv
  <2> QED
    BY <2>1, <2>2
<1> QED
  BY <1>6, <1>13 DEF MailInv

LEMMA AppendFailsMail ==
  ASSUME IInv, MailInv, NEW b \in Boxes, AppendFails(b) PROVE MailInv'
<1>1. /\ UNCHANGED <<payloads, boxes>> /\ pub' = [pub EXCEPT !.todo = pub.todo \ {b}] /\ b \in pub.todo
      /\ missed' = IF pub.kind = "new" THEN missed \cup {<<pub.msg, b>>} ELSE missed
  BY DEF AppendFails
<1>2. /\ pub \in [msg : 0 .. Len(payloads), kind : Kinds, at : {0, 1}, todo : SUBSET Boxes]
      /\ Len(payloads) \in Nat
  BY DEF IInv, TypeInv
<1>3. pub'.msg = pub.msg /\ pub'.kind = pub.kind /\ pub'.todo = pub.todo \ {b}
  BY <1>1, <1>2
<1>4. StoredInv'
  <2>1. \A p \in missed' : p[1] \in 0 .. Len(payloads)
    BY <1>1, <1>2 DEF MailInv, StoredInv
  <2>2. \A c \in pub'.todo : <<pub.msg, c>> \in missed' => <<pub.msg, c>> \in missed
    BY <1>1, <1>3
  <2> QED
    BY <1>1, <1>3, <2>1, <2>2 DEF MailInv, StoredInv, Latest, Live
<1>5. InboxInv'
  <2> SUFFICES ASSUME NEW c \in Boxes, Live(c)
               PROVE  { m \in Meant(c) \ Pending(c) : <<m, c>> \notin missed }
                        = { m \in Meant(c)' \ Pending(c)' : <<m, c>> \notin missed' }
    BY <1>1 DEF InboxInv, Live, MailInv
  <2>1. Meant(c)' = Meant(c)
    BY <1>1 DEF Meant
  <2>2. CASE c = b
    BY <1>1, <1>3, <2>1, <2>2 DEF Pending
  <2>3. CASE c # b
    BY <1>1, <1>3, <2>1, <2>3 DEF Pending
  <2> QED
    BY <2>2, <2>3
<1> QED
  BY <1>4, <1>5 DEF MailInv

LEMMA NextMail ==
  ASSUME Matching = Covered, IInv, IInv', MailInv, [Next]_vars PROVE MailInv'
<1>1. CASE \E s \in Subs : Subscribe(s)
  BY <1>1, SubscribeMail
<1>2. CASE \E s \in Subs : Unsubscribe(s) \/ Next_(s) \/ \E offset \in 0 .. MaxMsgs : Seek(s, offset)
  BY <1>2, ReadMail
<1>3. CASE \E topic \in Topics, at \in {0, 1} : Publish(topic, at)
  BY <1>3, PublishMail
<1>4. CASE \E msg \in 1 .. MaxMsgs, topic \in Topics :
             Reroute(msg, topic, "retry", 1) \/ Reroute(msg, topic, "dead", 0)
  <2>1. UNCHANGED <<payloads, boxes, missed>> /\ pub.kind # "new" /\ pub'.kind # "new"
    BY <1>4 DEF Reroute, Idle
  <2> QED
    BY <2>1, OtherMail
<1>5. CASE \E b \in Boxes : AppendRef(b)
  BY <1>5, AppendRefMail
<1>6. CASE \E b \in Boxes : AppendFails(b)
  BY <1>6, AppendFailsMail
<1>7. CASE Unlock
  <2>1. UNCHANGED <<payloads, boxes, missed>> /\ pub.todo = {} /\ pub'.kind # "new"
    BY <1>7 DEF Unlock, Idle
  <2> QED
    BY <2>1, OtherMail
<1>8. CASE Tick \/ UNCHANGED vars
  <2>1. UNCHANGED <<payloads, boxes, missed, pub>>
    BY <1>8 DEF Tick, vars
  <2> QED
    BY <2>1, OtherMail
<1> QED
  BY <1>1, <1>2, <1>3, <1>4, <1>5, <1>6, <1>7, <1>8 DEF Next

\* If the code's matching is what the patterns in use are documented to mean, an
\* inbox holds every covered message stored since its subscription, once and in
\* the order of the payload log, except those whose append failed for it
\* (emq_router_publish, emq_router_route_ref_locked).
THEOREM InboxesComplete ==
  ASSUME Matching = Covered PROVE Spec => []InboxComplete
<1>1. Init => MailInv
  <2> SUFFICES ASSUME Init PROVE MailInv
    OBVIOUS
  <2>1. /\ missed = {} /\ pub.kind = "none" /\ \A b \in Boxes : ~Live(b)
    BY DEF Init, Idle, Live, NoBox
  <2> QED
    BY <2>1 DEF MailInv, StoredInv, InboxInv, Latest
<1>2. IInv /\ IInv' /\ MailInv /\ [Next]_vars => MailInv'
  BY NextMail
<1>3. MailInv => InboxComplete
  <2> SUFFICES ASSUME MailInv, NEW b \in Boxes, Live(b)
               PROVE  /\ { boxes[b].inbox[i].msg : i \in News(b) }
                           = { m \in Meant(b) \ Pending(b) : <<m, b>> \notin missed }
                      /\ \A i, j \in News(b) : i < j => boxes[b].inbox[i].msg < boxes[b].inbox[j].msg
    BY DEF InboxComplete
  <2>1. { boxes[b].inbox[i].msg : i \in News(b) } = Told(boxes[b].inbox)
    BY DEF News, Told
  <2> QED
    BY <2>1 DEF MailInv, InboxInv, InOrder, News
<1> QED
  BY <1>1, <1>2, <1>3, RouterInvariance, PTL DEF Spec
=============================================================================
