---------------------------- MODULE CycIntProofs ----------------------------
(***************************************************************************)
(* The chains of CycInt, for any number of events and any delays.  The     *)
(* inductive invariant names a total order for each list (Chained); every  *)
(* operation is an unlinking, an insertion, or both, and each of the two   *)
(* is a lemma about the arrays alone.                                      *)
(*                                                                         *)
(* From it follow what the lists are for: they implement the abstract      *)
(* EventQueue, and the host clock is polled in time for the first event.   *)
(***************************************************************************)
EXTENDS CycInt, TLAPS

(* Chained looks at the arrays on the list only. *)
LEMMA ChainedFrame ==
  ASSUME NEW list, list \subseteq Events, NEW first,
         NEW tm, NEW nx, NEW pv, NEW ord,
         NEW tm2, NEW nx2, NEW pv2, NEW ord2,
         Chained(list, first, tm, nx, pv, ord),
         \A x \in list : tm2[x] = tm[x] /\ nx2[x] = nx[x] /\ pv2[x] = pv[x],
         \A x, y \in list : <<x, y>> \in ord2 <=> <<x, y>> \in ord
  PROVE  Chained(list, first, tm2, nx2, pv2, ord2)
<1>1. IsOrder(list, ord2)
  <2>1. \A S \in SUBSET list :
          S # {} => \E m \in S : \A x \in S : x # m => <<x, m>> \in ord2
    <3> SUFFICES ASSUME NEW S \in SUBSET list, S # {}
                 PROVE  \E m \in S : \A x \in S : x # m => <<x, m>> \in ord2
      OBVIOUS
    <3>1. PICK m \in S : \A x \in S : x # m => <<x, m>> \in ord
      BY DEF Chained, IsOrder
    <3> QED
      BY <3>1
  <2> QED
    BY <2>1 DEF Chained, IsOrder
<1>2. Sorted(list, tm2, ord2)
  BY DEF Chained, Sorted
<1>3. Linked(list, first, nx2, pv2, ord2)
  BY ConstantsAssumption DEF Chained, Linked
<1> QED
  BY <1>1, <1>2, <1>3 DEF Chained

(* Unlinking an event leaves the rest of its list chained. *)
LEMMA ChainedUnlink ==
  ASSUME NEW list, list \subseteq Events, NEW first,
         NEW tm, NEW nx \in [Ids -> Ids], NEW pv \in [Ids -> Ids], NEW ord,
         Chained(list, first, tm, nx, pv, ord),
         NEW i \in list, NEW nx2, NEW pv2,
         nx2 = IF pv[i] # EVENT_NULL THEN [nx EXCEPT ![pv[i]] = nx[i]] ELSE nx,
         pv2 = IF nx[i] # EVENT_NULL THEN [pv EXCEPT ![nx[i]] = pv[i]] ELSE pv
  PROVE  Chained(list \ {i}, IF first = i THEN nx[i] ELSE first, tm, nx2, pv2, ord)
<1> DEFINE rest == list \ {i}
           head == IF first = i THEN nx[i] ELSE first
<1>0. IsOrder(list, ord) /\ Sorted(list, tm, ord) /\ Linked(list, first, nx, pv, ord)
  BY DEF Chained
<1>1. IsOrder(rest, ord) /\ Sorted(rest, tm, ord)
  BY <1>0 DEF IsOrder, Sorted
<1>2. /\ \A x, y \in list : <<x, y>> \in ord => <<y, x>> \notin ord
      /\ \A x, y, z \in list : <<x, y>> \in ord /\ <<y, z>> \in ord => <<x, z>> \in ord
  BY <1>0 DEF IsOrder
<1>3. \A x \in list : x # EVENT_NULL /\ x \in Ids /\ nx[x] \in Ids /\ pv[x] \in Ids
  BY ConstantsAssumption DEF Ids
<1>4. first \in list
  BY <1>0 DEF Linked
<1>5. /\ \A x \in rest : nx2[x] = IF x = pv[i] THEN nx[i] ELSE nx[x]
      /\ \A x \in rest : pv2[x] = IF x = nx[i] THEN pv[i] ELSE pv[x]
  BY <1>3
<1>6. IF head = EVENT_NULL THEN rest = {} ELSE head \in rest
  <2>1. CASE first = i
    BY <2>1, <1>0, <1>2 DEF Linked
  <2>2. CASE first # i
    BY <2>2, <1>3, <1>4
  <2> QED
    BY <2>1, <2>2
<1>7. \A x \in rest : x # head => <<head, x>> \in ord
  BY <1>0, <1>2, <1>3 DEF Linked
<1>8. \A x \in rest :
        IF nx2[x] = EVENT_NULL
        THEN \A y \in rest : <<x, y>> \notin ord
        ELSE /\ nx2[x] \in rest /\ <<x, nx2[x]>> \in ord /\ pv2[nx2[x]] = x
             /\ \A y \in rest : <<x, y>> \in ord => y = nx2[x] \/ <<nx2[x], y>> \in ord
  <2> SUFFICES ASSUME NEW x \in rest
               PROVE
                 IF nx2[x] = EVENT_NULL
                 THEN \A y \in rest : <<x, y>> \notin ord
                 ELSE /\ nx2[x] \in rest /\ <<x, nx2[x]>> \in ord /\ pv2[nx2[x]] = x
                      /\ \A y \in rest : <<x, y>> \in ord
                            => y = nx2[x] \/ <<nx2[x], y>> \in ord
    OBVIOUS
  <2> HIDE DEF rest
  <2>0. /\ x \in list /\ x # i /\ rest \subseteq list
        /\ \A y \in list : y # i <=> y \in rest
    BY DEF rest
  <2>1. CASE x = pv[i]
    <3>1. nx[x] = i /\ <<x, i>> \in ord /\ nx2[x] = nx[i]
      BY <2>0, <2>1, <1>0, <1>3, <1>5 DEF Linked
    <3>2. \A y \in list : <<x, y>> \in ord => y = i \/ <<i, y>> \in ord
      BY <3>1, <2>0, <1>0, <1>3 DEF Linked
    <3>3. CASE nx[i] = EVENT_NULL
      <4>1. \A y \in list : <<i, y>> \notin ord
        BY <3>3, <1>0 DEF Linked
      <4>2. \A y \in rest : <<x, y>> \notin ord
        BY <4>1, <3>2, <2>0
      <4> QED
        BY <4>2, <3>1, <3>3
    <3>4. CASE nx[i] # EVENT_NULL
      <4>1. /\ nx[i] \in list /\ <<i, nx[i]>> \in ord
            /\ \A y \in list : <<i, y>> \in ord => y = nx[i] \/ <<nx[i], y>> \in ord
        BY <3>4, <1>0 DEF Linked
      <4>2. nx[i] \in rest /\ <<x, nx[i]>> \in ord
        BY <4>1, <3>1, <2>0, <1>2
      <4>3. pv2[nx[i]] = x
        BY <4>2, <2>0, <2>1, <1>5
      <4> QED
        BY <4>1, <4>2, <4>3, <3>1, <3>2, <3>4, <2>0
    <3> QED
      BY <3>3, <3>4
  <2>2. CASE x # pv[i]
    <3>1. nx2[x] = nx[x] /\ nx[x] # i
      BY <2>0, <2>2, <1>0, <1>3, <1>5 DEF Linked
    <3>2. CASE nx[x] = EVENT_NULL
      BY <3>1, <3>2, <2>0, <1>0 DEF Linked
    <3>3. CASE nx[x] # EVENT_NULL
      <4>1. /\ nx[x] \in rest /\ <<x, nx[x]>> \in ord /\ pv[nx[x]] = x
            /\ \A y \in list : <<x, y>> \in ord => y = nx[x] \/ <<nx[x], y>> \in ord
        BY <3>1, <3>3, <2>0, <1>0 DEF Linked
      <4>2. nx[x] # nx[i]
        BY <4>1, <3>3, <2>0, <1>0 DEF Linked
      <4>3. pv2[nx[x]] = x
        BY <4>1, <4>2, <1>5
      <4> QED
        BY <4>1, <4>3, <3>1, <3>3, <2>0
    <3> QED
      BY <3>2, <3>3
  <2> QED
    BY <2>1, <2>2
<1>9. \A x \in rest :
        IF x = head THEN pv2[x] = EVENT_NULL
        ELSE pv2[x] \in rest /\ nx2[pv2[x]] = x
  <2> SUFFICES ASSUME NEW x \in rest
               PROVE  IF x = head THEN pv2[x] = EVENT_NULL
                      ELSE pv2[x] \in rest /\ nx2[pv2[x]] = x
    OBVIOUS
  <2> HIDE DEF rest
  <2>0. /\ x \in list /\ x # i /\ rest \subseteq list
        /\ \A y \in list : y # i <=> y \in rest
    BY DEF rest
  <2>1. nx[i] # first /\ (first # i => pv[i] \in rest /\ nx[pv[i]] = i)
    BY <2>0, <1>0, <1>2, <1>3, <1>4 DEF Linked
  <2>2. CASE x = nx[i]
    BY <2>0, <2>1, <2>2, <1>0, <1>3, <1>4, <1>5 DEF Linked
  <2>3. CASE x # nx[i]
    <3>1. pv2[x] = pv[x] /\ (x = head => x = first) /\ (x = first => x = head)
      BY <2>0, <2>3, <1>5
    <3>2. x # first => pv[x] \in rest /\ nx[pv[x]] = x /\ pv[x] # pv[i]
      BY <2>0, <2>1, <2>3, <1>0, <1>3 DEF Linked
    <3> QED
      BY <3>1, <3>2, <2>0, <1>0, <1>5 DEF Linked
  <2> QED
    BY <2>2, <2>3
<1>10. Linked(rest, head, nx2, pv2, ord)
  BY <1>6, <1>7, <1>8, <1>9 DEF Linked
<1> QED
  BY <1>1, <1>10 DEF Chained

(* The search of CycInt_AddEvent stops behind the last event due before t. *)
LEMMA LastBeforeStops ==
  ASSUME NEW list, list \subseteq Events, NEW first,
         NEW nx, NEW pv, NEW ord, NEW t \in Nat,
         \A x \in list : time[x] \in Nat,
         Chained(list, first, time, nx, pv, ord),
         NEW A, A = {m \in list : time[m] < t},
         NEW p, p = LastBefore(list, nx, t)
  PROVE  IF A = {} THEN p = EVENT_NULL
         ELSE p \in A /\ \A x \in A : x # p => <<x, p>> \in ord
<1>1. /\ IsOrder(list, ord) /\ Sorted(list, time, ord) /\ Linked(list, first, nx, pv, ord)
      /\ \A x \in list : x # EVENT_NULL
  BY ConstantsAssumption DEF Chained
<1>2. /\ \A x, y \in list : <<x, y>> \in ord => <<y, x>> \notin ord
      /\ \A x, y \in list : x # y => <<x, y>> \in ord \/ <<y, x>> \in ord
      /\ \A x, y \in list : <<x, y>> \in ord => time[x] <= time[y]
  BY <1>1 DEF IsOrder, Sorted
<1>3. \A x, y \in list : <<x, y>> \in ord /\ y \in A => x \in A
  BY <1>2
<1>4. CASE A = {}
  BY <1>4 DEF LastBefore
<1>5. CASE A # {}
  <2>1. PICK m \in A : \A x \in A : x # m => <<x, m>> \in ord
    BY <1>1, <1>5 DEF IsOrder
  <2>2. nx[m] \notin A
    BY <2>1, <1>1, <1>2 DEF Linked
  <2>3. p = CHOOSE q \in A : nx[q] \notin A
    BY <1>5 DEF LastBefore
  <2>4. p \in A /\ nx[p] \notin A
    BY <2>1, <2>2, <2>3
  <2>5. ASSUME NEW x \in A, x # p
        PROVE  <<x, p>> \in ord
    <3>1. SUFFICES ASSUME <<p, x>> \in ord PROVE FALSE
      BY <2>4, <2>5, <1>2
    <3>2. nx[p] \in list /\ <<nx[p], x>> \in ord
      BY <3>1, <2>4, <2>5, <1>1 DEF Linked
    <3> QED
      BY <3>2, <2>4, <1>3
  <2> QED
    BY <2>4, <2>5, <1>5
<1> QED
  BY <1>4, <1>5

(* Inserting i into an order after A, an initial part of it.               *)
LEMMA OrderInsert ==
  ASSUME NEW list, NEW ord, IsOrder(list, ord),
         NEW A \in SUBSET list,
         \A x \in A, y \in list \ A : <<x, y>> \in ord,
         NEW i, i \notin list, NEW ord2,
         \A x, y \in list : <<x, y>> \in ord2 <=> <<x, y>> \in ord,
         \A x \in list : <<x, i>> \in ord2 <=> x \in A,
         \A x \in list : <<i, x>> \in ord2 <=> x \notin A,
         <<i, i>> \notin ord2
  PROVE  IsOrder(list \cup {i}, ord2)
<1> DEFINE all == list \cup {i}
<1>1. /\ \A x, y \in list : <<x, y>> \in ord => <<y, x>> \notin ord
      /\ \A x, y \in list : x # y => <<x, y>> \in ord \/ <<y, x>> \in ord
      /\ \A x, y, z \in list : <<x, y>> \in ord /\ <<y, z>> \in ord => <<x, z>> \in ord
  BY DEF IsOrder
<1>2. \A x, y \in list : <<x, y>> \in ord /\ y \in A => x \in A
  BY <1>1
<1>3. \A x, y \in all : <<x, y>> \in ord2 => <<y, x>> \notin ord2
  BY <1>1
<1>4. \A x, y \in all : x # y => <<x, y>> \in ord2 \/ <<y, x>> \in ord2
  BY <1>1
<1>5. ASSUME NEW x \in all, NEW y \in all, NEW z \in all,
             <<x, y>> \in ord2, <<y, z>> \in ord2
      PROVE  <<x, z>> \in ord2
  <2>1. CASE x = i
    BY <1>5, <2>1, <1>2
  <2>2. CASE z = i /\ x # i
    BY <1>5, <2>2, <1>2
  <2>3. CASE y = i /\ x # i /\ z # i
    BY <1>5, <2>3
  <2>4. CASE y # i /\ x # i /\ z # i
    BY <1>5, <2>4, <1>1
  <2> QED
    BY <2>1, <2>2, <2>3, <2>4
<1>6. ASSUME NEW S \in SUBSET all, S # {}
      PROVE  \E m \in S : \A x \in S : x # m => <<x, m>> \in ord2
  <2>1. CASE S \ {i} = {}
    BY <1>6, <2>1
  <2>2. CASE S \ {i} # {}
    <3>1. S \ {i} \in SUBSET list
      BY <1>6
    <3>2. PICK m \in S \ {i} : \A x \in S \ {i} : x # m => <<x, m>> \in ord
      BY <3>1, <2>2 DEF IsOrder
    <3>3. CASE i \in S /\ m \in A
      <4>1. \A x \in S \ {i} : <<x, i>> \in ord2
        BY <3>1, <3>2, <3>3, <1>2
      <4> QED
        BY <4>1, <3>3
    <3>4. CASE ~(i \in S /\ m \in A)
      BY <3>1, <3>2, <3>4
    <3> QED
      BY <3>3, <3>4
  <2> QED
    BY <2>1, <2>2
<1> QED
  BY <1>3, <1>4, <1>5, <1>6 DEF IsOrder

(* What CycInt_AddEvent does to the arrays: i comes after p, the last event *)
(* of A (the events the search has passed), and before n, p's successor.    *)
Inserts(list, first, nx, pv, ord, A, i, p, n, nx2, pv2, ord2) ==
  /\ A \in SUBSET list /\ i \notin list
  /\ \A x \in A, y \in list \ A : <<x, y>> \in ord
  /\ \A x, y \in list : <<x, y>> \in ord2 <=> <<x, y>> \in ord
  /\ \A x \in list : <<x, i>> \in ord2 <=> x \in A
  /\ \A x \in list : <<i, x>> \in ord2 <=> x \notin A
  /\ <<i, i>> \notin ord2
  /\ p = EVENT_NULL => A = {}
  /\ p # EVENT_NULL => p \in A /\ \A x \in A : x # p => <<x, p>> \in ord
  /\ n = IF p = EVENT_NULL THEN first ELSE nx[p]
  /\ nx2[i] = n /\ pv2[i] = p
  /\ \A x \in list : nx2[x] = IF x = p THEN i ELSE nx[x]
  /\ \A x \in list : pv2[x] = IF x = n THEN i ELSE pv[x]

(* The links are those of the order with i added behind p. *)
LEMMA LinkedInsert ==
  ASSUME NEW list, EVENT_NULL \notin list, NEW first, NEW nx, NEW pv, NEW ord,
         IsOrder(list, ord), Linked(list, first, nx, pv, ord),
         NEW A, NEW i, i # EVENT_NULL, NEW p, NEW n, NEW nx2, NEW pv2, NEW ord2,
         Inserts(list, first, nx, pv, ord, A, i, p, n, nx2, pv2, ord2)
  PROVE  Linked(list \cup {i}, IF p = EVENT_NULL THEN i ELSE first, nx2, pv2, ord2)
<1> USE DEF Inserts
<1> DEFINE all  == list \cup {i}
           head == IF p = EVENT_NULL THEN i ELSE first
<1>1. /\ \A x, y \in list : <<x, y>> \in ord => <<y, x>> \notin ord
      /\ \A x, y \in list : x # y => <<x, y>> \in ord \/ <<y, x>> \in ord
      /\ \A x, y, z \in list : <<x, y>> \in ord /\ <<y, z>> \in ord => <<x, z>> \in ord
  BY DEF IsOrder
<1>2. \A x \in list : x # EVENT_NULL
  OBVIOUS
<1>3. n # EVENT_NULL => n \in list \ A
  <2>1. CASE p = EVENT_NULL
    BY <2>1 DEF Linked
  <2>2. CASE p # EVENT_NULL /\ n # EVENT_NULL
    <3>1. p \in list /\ n = nx[p]
      BY <2>2
    <3>2. n \in list /\ <<p, n>> \in ord
      BY <2>2, <3>1 DEF Linked
    <3> QED
      BY <2>2, <3>1, <3>2, <1>1
  <2> QED
    BY <2>1, <2>2
<1>4. \A x \in list \ A : x # n => n # EVENT_NULL /\ <<n, x>> \in ord
  <2>1. CASE p = EVENT_NULL
    BY <2>1 DEF Linked
  <2>2. CASE p # EVENT_NULL
    BY <2>2, ZenonT(30) DEF Linked
  <2> QED
    BY <2>1, <2>2
<1>5. IF head = EVENT_NULL THEN all = {} ELSE head \in all
  BY DEF Linked
<1>f. p # EVENT_NULL => first \in A
  BY <1>1 DEF Linked
<1>6. \A x \in all : x # head => <<head, x>> \in ord2
  <2>1. CASE p = EVENT_NULL
    BY <2>1
  <2>2. CASE p # EVENT_NULL
    BY <2>2, <1>f DEF Linked
  <2> QED
    BY <2>1, <2>2
<1>7. ASSUME NEW x \in all
      PROVE  IF nx2[x] = EVENT_NULL
             THEN \A y \in all : <<x, y>> \notin ord2
             ELSE /\ nx2[x] \in all /\ <<x, nx2[x]>> \in ord2 /\ pv2[nx2[x]] = x
                  /\ \A y \in all : <<x, y>> \in ord2
                        => y = nx2[x] \/ <<nx2[x], y>> \in ord2
  <2>1. CASE x = i
    <3>1. nx2[x] = n /\ \A y \in all : <<x, y>> \in ord2 => y \in list \ A
      BY <2>1
    <3>2. CASE n = EVENT_NULL
      BY <3>1, <3>2, <1>2, <1>4
    <3>3. CASE n # EVENT_NULL
      <4>1. n \in list \ A /\ pv2[n] = i /\ <<i, n>> \in ord2
        BY <3>3, <1>3
      <4>2. \A y \in list \ A : y = n \/ <<n, y>> \in ord2
        BY <4>1, <1>4
      <4> QED
        BY <4>1, <4>2, <3>1, <3>3, <2>1
    <3> QED
      BY <3>2, <3>3
  <2>2. CASE x = p /\ x # i
    <3>1. nx2[x] = i /\ <<x, i>> \in ord2 /\ pv2[i] = x /\ x \in A
      BY <2>2, <1>2
    <3>2. \A y \in all : <<x, y>> \in ord2 => y = i \/ <<i, y>> \in ord2
      BY <2>2, <3>1, <1>1, <1>2
    <3> QED
      BY <3>1, <3>2
  <2>3. CASE x # i /\ x # p
    <3>1. nx2[x] = nx[x] /\ x \in list
      BY <2>3
    <3>2. x \in A => p \in A /\ <<x, p>> \in ord
      BY <2>3
    <3>3. CASE nx[x] = EVENT_NULL
      <4>1. \A y \in list : <<x, y>> \notin ord
        BY <3>1, <3>3 DEF Linked
      <4> QED
        BY <4>1, <3>1, <3>2, <3>3
    <3>4. CASE nx[x] # EVENT_NULL
      <4>1. /\ nx[x] \in list /\ <<x, nx[x]>> \in ord /\ pv[nx[x]] = x
            /\ \A y \in list : <<x, y>> \in ord => y = nx[x] \/ <<nx[x], y>> \in ord
        BY <3>1, <3>4 DEF Linked
      <4>2. nx[x] # n
        <5>1. CASE p = EVENT_NULL
          BY <5>1, <4>1, <3>1, <1>1 DEF Linked
        <5>2. CASE p # EVENT_NULL
          <6>1. p \in list /\ n = nx[p]
            BY <5>2
          <6>2. nx[p] # EVENT_NULL => pv[nx[p]] = p
            BY <6>1 DEF Linked
          <6> QED
            BY <6>1, <6>2, <4>1, <2>3, <3>4
        <5> QED
          BY <5>1, <5>2
      <4>3. pv2[nx[x]] = x
        BY <4>1, <4>2
      <4>4. x \in A => nx[x] \in A
        BY <4>1, <3>2, <1>1
      <4>5. x \notin A => <<x, i>> \notin ord2
        BY <3>1
      <4> QED
        BY <4>1, <4>3, <4>4, <4>5, <3>1, <3>4
    <3> QED
      BY <3>3, <3>4
  <2> QED
    BY <2>1, <2>2, <2>3
<1>8. ASSUME NEW x \in all
      PROVE  IF x = head THEN pv2[x] = EVENT_NULL
             ELSE pv2[x] \in all /\ nx2[pv2[x]] = x
  <2>1. CASE x = i
    BY <2>1, <1>2 DEF Linked
  <2>2. CASE x # i /\ x = n
    <3>1. x \in list \ A /\ pv2[x] = i /\ nx2[i] = x
      BY <2>2, <1>2, <1>3
    <3>2. x # head
      BY <3>1, <2>2, <1>f
    <3> QED
      BY <3>1, <3>2
  <2>3. CASE x # i /\ x # n
    <3>1. pv2[x] = pv[x] /\ x \in list
      BY <2>3
    <3>2. x # first => pv[x] \in list /\ nx[pv[x]] = x /\ pv[x] # p
      BY <2>3, <3>1, <1>2 DEF Linked
    <3>3. x = first => pv[x] = EVENT_NULL /\ p # EVENT_NULL
      BY <2>3, <3>1 DEF Linked
    <3> QED
      BY <3>1, <3>2, <3>3, <2>3
  <2> QED
    BY <2>1, <2>2, <2>3
<1> QED
  BY <1>5, <1>6, <1>7, <1>8 DEF Linked

(* CycInt_AddEvent on one list: i is entered with time t behind p, where    *)
(* the search stops.                                                        *)
Entered(list, first, nx, pv, i, t, p, n, tm2, nx2, pv2) ==
  /\ p = LastBefore(list, nx, t)
  /\ n = IF p = EVENT_NULL THEN first ELSE nx[p]
  /\ tm2[i] = t /\ nx2[i] = n /\ pv2[i] = p
  /\ \A x \in list : tm2[x] = time[x]
  /\ \A x \in list : nx2[x] = IF x = p THEN i ELSE nx[x]
  /\ \A x \in list : pv2[x] = IF x = n THEN i ELSE pv[x]

(* Entering an event where the search stops keeps the list chained. *)
LEMMA ChainedInsert ==
  ASSUME NEW list, list \subseteq Events, NEW first,
         NEW nx, NEW pv, NEW ord, NEW t \in Nat,
         \A x \in list : time[x] \in Nat,
         Chained(list, first, time, nx, pv, ord),
         NEW i \in Events, i \notin list, NEW p, NEW n, NEW tm2, NEW nx2, NEW pv2,
         Entered(list, first, nx, pv, i, t, p, n, tm2, nx2, pv2)
  PROVE  /\ \E ord2 : Chained(list \cup {i}, IF p = EVENT_NULL THEN i ELSE first,
                              tm2, nx2, pv2, ord2)
         /\ p \in list \cup {EVENT_NULL} /\ n \in list \cup {EVENT_NULL}
<1> USE DEF Entered
<1> DEFINE A    == {m \in list : time[m] < t}
           ord2 == (ord \cap (list \X list)) \cup (A \X {i}) \cup ({i} \X (list \ A))
           all  == list \cup {i}
           head == IF p = EVENT_NULL THEN i ELSE first
<1>1. /\ IsOrder(list, ord) /\ Sorted(list, time, ord) /\ Linked(list, first, nx, pv, ord)
      /\ EVENT_NULL \notin list /\ i # EVENT_NULL /\ i \notin list
  BY ConstantsAssumption DEF Chained
<1>a. A = {m \in list : time[m] < t}
  OBVIOUS
<1>2. IF A = {} THEN p = EVENT_NULL
      ELSE p \in A /\ \A x \in A : x # p => <<x, p>> \in ord
  <2> HIDE DEF A
  <2> QED
    BY <1>a, LastBeforeStops
<1>3. p = EVENT_NULL => A = {}
  BY <1>1, <1>2
<1>4. p # EVENT_NULL => p \in A /\ \A x \in A : x # p => <<x, p>> \in ord
  BY <1>2
<1>5. \A x \in A, y \in list \ A : <<x, y>> \in ord
  <2>1. /\ \A x, y \in list : x # y => <<x, y>> \in ord \/ <<y, x>> \in ord
        /\ \A x, y \in list : <<x, y>> \in ord => time[x] <= time[y]
    BY <1>1 DEF IsOrder, Sorted
  <2>2. ASSUME NEW x \in A, NEW y \in list \ A
        PROVE  <<x, y>> \in ord
    <3>1. /\ x \in list /\ y \in list /\ time[x] \in Nat /\ time[y] \in Nat
          /\ time[x] < t /\ ~(time[y] < t)
      BY <2>2
    <3>2. ~(time[y] <= time[x]) /\ x # y
      BY <3>1
    <3> QED
      BY <2>1, <3>1, <3>2
  <2> QED
    BY <2>2
<1>6. /\ \A x, y \in list : <<x, y>> \in ord2 <=> <<x, y>> \in ord
      /\ \A x \in list : <<x, i>> \in ord2 <=> x \in A
      /\ \A x \in list : <<i, x>> \in ord2 <=> x \notin A
      /\ <<i, i>> \notin ord2
  BY <1>1
<1>7. Sorted(all, tm2, ord2)
  <2> SUFFICES ASSUME NEW x \in all, NEW y \in all, <<x, y>> \in ord2
               PROVE  tm2[x] <= tm2[y]
    BY DEF Sorted
  <2>1. CASE x = i
    BY <2>1, <1>6
  <2>2. CASE y = i
    BY <2>2, <1>6
  <2>3. CASE x # i /\ y # i
    BY <2>3, <1>1, <1>6 DEF Sorted
  <2> QED
    BY <2>1, <2>2, <2>3
<1> HIDE DEF ord2, A
<1>8. A \in SUBSET list
  BY DEF A
<1>9. IsOrder(all, ord2)
  BY <1>1, <1>5, <1>6, <1>8, OrderInsert
<1>i. Inserts(list, first, nx, pv, ord, A, i, p, n, nx2, pv2, ord2)
  BY <1>1, <1>3, <1>4, <1>5, <1>6, <1>8 DEF Inserts
<1>10. Linked(all, head, nx2, pv2, ord2)
  BY <1>1, <1>i, LinkedInsert
<1>11. p \in list \cup {EVENT_NULL} /\ n \in list \cup {EVENT_NULL}
  BY <1>1, <1>4, <1>8 DEF Linked
<1> QED
  BY <1>7, <1>9, <1>10, <1>11 DEF Chained

(* Chained is a matter of the pairs of list only.                           *)
LEMMA ChainedBounded ==
  ASSUME NEW list, list \subseteq Events, NEW first, NEW tm, NEW nx, NEW pv, NEW ord,
         Chained(list, first, tm, nx, pv, ord)
  PROVE  \E o \in SUBSET (list \X list) : Chained(list, first, tm, nx, pv, o)
<1> DEFINE o == ord \cap (list \X list)
<1>1. \A x, y \in list : <<x, y>> \in o <=> <<x, y>> \in ord
  OBVIOUS
<1> HIDE DEF o
<1>2. Chained(list, first, tm, nx, pv, o)
  BY <1>1, ChainedFrame
<1> QED
  BY <1>2 DEF o

-----------------------------------------------------------------------------
First(k) == IF k = "CYCLES" THEN nCyclesFirst ELSE nTimeFirst

Rest(k, i) == {m \in Events \ {i} : type[m] = k}

(* CycInt_RemovePendingEvent on the table: both lists lose nothing but i.   *)
LEMMA UnlinkedOK ==
  ASSUME TypeOK, ListsOK, NEW i \in Events, NEW k \in {"CYCLES", "TIME"}
  PROVE  /\ UnlinkedNext(i) \in [Ids -> Ids] /\ UnlinkedPrev(i) \in [Ids -> Ids]
         /\ UnlinkedFirst(k, First(k), i) \in Ids
         /\ \E ord : Chained(Rest(k, i), UnlinkedFirst(k, First(k), i), time,
                             UnlinkedNext(i), UnlinkedPrev(i), ord)
<1>1. /\ next \in [Ids -> Ids] /\ prev \in [Ids -> Ids] /\ First(k) \in Ids
      /\ i \in Ids /\ next[i] \in Ids /\ prev[i] \in Ids /\ EVENT_NULL \notin Events
      /\ type[i] \in {"NONE", "CYCLES", "TIME"}
  BY ConstantsAssumption DEF TypeOK, First, Ids
<1>2. /\ UnlinkedNext(i) \in [Ids -> Ids] /\ UnlinkedPrev(i) \in [Ids -> Ids]
      /\ UnlinkedFirst(k, First(k), i) \in Ids
  BY <1>1 DEF UnlinkedNext, UnlinkedPrev, UnlinkedFirst
<1>3. PICK ord : Chained(List(k), First(k), time, next, prev, ord)
  BY DEF ListsOK, ListOK, First
<1>4. CASE type[i] = k
  <2>1. /\ i \in List(k) /\ List(k) \subseteq Events /\ List(k) \ {i} = Rest(k, i)
    BY <1>4 DEF List, Rest
  <2>2. /\ UnlinkedNext(i) = IF prev[i] # EVENT_NULL
                             THEN [next EXCEPT ![prev[i]] = next[i]] ELSE next
        /\ UnlinkedPrev(i) = IF next[i] # EVENT_NULL
                             THEN [prev EXCEPT ![next[i]] = prev[i]] ELSE prev
        /\ UnlinkedFirst(k, First(k), i) = IF First(k) = i THEN next[i] ELSE First(k)
    BY <1>4 DEF UnlinkedNext, UnlinkedPrev, UnlinkedFirst
  <2>3. Chained(List(k) \ {i}, IF First(k) = i THEN next[i] ELSE First(k), time,
                UnlinkedNext(i), UnlinkedPrev(i), ord)
    BY <1>1, <1>3, <2>1, <2>2, ChainedUnlink
  <2> QED
    BY <1>2, <2>1, <2>2, <2>3
<1>5. CASE type[i] # k
  <2>1. List(k) = Rest(k, i) /\ List(k) \subseteq Events
    BY <1>5 DEF List, Rest
  <2>2. UnlinkedFirst(k, First(k), i) = First(k)
    BY <1>5 DEF UnlinkedFirst
  <2>3. type[i] # "NONE" => /\ prev[i] \in List(type[i]) \cup {EVENT_NULL}
                           /\ next[i] \in List(type[i]) \cup {EVENT_NULL}
    <3> SUFFICES ASSUME type[i] # "NONE"
                 PROVE  /\ prev[i] \in List(type[i]) \cup {EVENT_NULL}
                        /\ next[i] \in List(type[i]) \cup {EVENT_NULL}
      OBVIOUS
    <3>1. PICK o : Chained(List(type[i]), First(type[i]), time, next, prev, o)
      BY <1>1 DEF ListsOK, ListOK, First
    <3>2. i \in List(type[i])
      BY DEF List
    <3> QED
      BY <3>1, <3>2 DEF Chained, Linked
  <2>4. \A x \in List(k) : UnlinkedNext(i)[x] = next[x] /\ UnlinkedPrev(i)[x] = prev[x]
    BY <2>3, <1>1, <1>5, ConstantsAssumption DEF UnlinkedNext, UnlinkedPrev, List, Ids
  <2>5. Chained(List(k), First(k), time, UnlinkedNext(i), UnlinkedPrev(i), ord)
    BY <1>3, <2>1, <2>4, ChainedFrame
  <2> QED
    BY <1>2, <2>1, <2>2, <2>5
<1> QED
  BY <1>4, <1>5

TableTypes ==
  /\ type \in [Ids -> {"NONE", "CYCLES", "TIME"}]
  /\ time \in [Ids -> Nat]
  /\ prev \in [Ids -> Ids] /\ next \in [Ids -> Ids]
  /\ nCyclesFirst \in Ids /\ nTimeFirst \in Ids
  /\ type[EVENT_NULL] = "NONE" /\ time[EVENT_NULL] = UINT64_MAX
  /\ \A i \in Events : type[i] # "NONE" => time[i] <= Horizon

(* Scheduling or rescheduling keeps both lists chained.                     *)
LEMMA EnqueueOK ==
  ASSUME TypeOK, ListsOK, NEW i \in Events, NEW k \in {"CYCLES", "TIME"},
         NEW t \in Nat, t <= Horizon, Enqueue(k, i, t)
  PROVE  TableTypes' /\ ListsOK'
<1> DEFINE nx == UnlinkedNext(i)
           pv == UnlinkedPrev(i)
           F(c) == UnlinkedFirst(c, First(c), i)
           p  == LastBefore(Rest(k, i), nx, t)
           n  == IF p = EVENT_NULL THEN F(k) ELSE nx[p]
<1>1. \A c \in {"CYCLES", "TIME"} :
        /\ nx \in [Ids -> Ids] /\ pv \in [Ids -> Ids] /\ F(c) \in Ids
        /\ \E ord : Chained(Rest(c, i), F(c), time, nx, pv, ord)
  BY UnlinkedOK
<1>2. /\ type' = [type EXCEPT ![i] = k]
      /\ time' = [time EXCEPT ![i] = t]
      /\ next' = [m \in Ids |-> IF m = i THEN n
                                ELSE IF m = p /\ p # EVENT_NULL THEN i ELSE nx[m]]
      /\ prev' = [m \in Ids |-> IF m = i THEN p
                                ELSE IF m = n /\ n # EVENT_NULL THEN i ELSE pv[m]]
      /\ nCyclesFirst' = IF k = "CYCLES" /\ p = EVENT_NULL THEN i ELSE F("CYCLES")
      /\ nTimeFirst' = IF k = "TIME" /\ p = EVENT_NULL THEN i ELSE F("TIME")
  BY DEF Enqueue, First, Rest
<1>3. /\ i \in Ids /\ i # EVENT_NULL /\ EVENT_NULL \notin Events
      /\ Rest(k, i) \subseteq Events /\ Rest(k, i) \subseteq Ids /\ i \notin Rest(k, i)
      /\ \A x \in Rest(k, i) : time[x] \in Nat /\ x # EVENT_NULL
  BY ConstantsAssumption DEF Ids, Rest, TypeOK
<1>4. PICK ord : Chained(Rest(k, i), F(k), time, nx, pv, ord)
  BY <1>1
<1> HIDE DEF nx, pv, F, p
<1>5. time'[i] = t /\ next'[i] = n /\ prev'[i] = p
  BY <1>2, <1>3 DEF TypeOK
<1>6. /\ \A x \in Rest(k, i) : time'[x] = time[x]
      /\ \A x \in Rest(k, i) : next'[x] = IF x = p THEN i ELSE nx[x]
      /\ \A x \in Rest(k, i) : prev'[x] = IF x = n THEN i ELSE pv[x]
  BY <1>2, <1>3 DEF TypeOK
<1>7. p = LastBefore(Rest(k, i), nx, t)
  BY DEF p
<1>8. /\ \E ord2 : Chained(Rest(k, i) \cup {i}, IF p = EVENT_NULL THEN i ELSE F(k),
                           time', next', prev', ord2)
      /\ p \in Rest(k, i) \cup {EVENT_NULL} /\ n \in Rest(k, i) \cup {EVENT_NULL}
  <2>1. Entered(Rest(k, i), F(k), nx, pv, i, t, p, n, time', next', prev')
    BY <1>5, <1>6, <1>7 DEF Entered
  <2> HIDE DEF n
  <2> QED
    BY <2>1, <1>3, <1>4, ChainedInsert
<1> HIDE DEF n
<1>9. TableTypes'
  BY <1>1, <1>2, <1>3, <1>8, ConstantsAssumption DEF TableTypes, TypeOK, Ids
<1>10. List(k)' = Rest(k, i) \cup {i} /\ First(k)' = IF p = EVENT_NULL THEN i ELSE F(k)
  BY <1>2, <1>3 DEF List, Rest, First, TypeOK, Ids
<1>11. ListOK(k, First(k))'
  <2>1. \E ord2 : Chained(List(k)', First(k)', time', next', prev', ord2)
    BY <1>8, <1>10
  <2>2. List(k)' \subseteq Events
    BY DEF List
  <2> QED
    BY <2>1, <2>2, ChainedBounded DEF ListOK
<1>12. ASSUME NEW c \in {"CYCLES", "TIME"}, c # k
       PROVE  ListOK(c, First(c))'
  <2>1. List(c)' = Rest(c, i) /\ First(c)' = F(c) /\ Rest(c, i) \subseteq Events
    BY <1>2, <1>3, <1>12 DEF List, Rest, First, TypeOK, Ids
  <2>2. PICK o : Chained(Rest(c, i), F(c), time, nx, pv, o)
    BY <1>1
  <2>3. \A x \in Rest(c, i) : x \in Ids /\ x # i /\ x # p /\ x # n
    BY <1>3, <1>8, <1>12 DEF Rest, Ids
  <2>4. \A x \in Rest(c, i) : time'[x] = time[x] /\ next'[x] = nx[x] /\ prev'[x] = pv[x]
    BY <1>2, <2>3 DEF TypeOK
  <2>5. Chained(Rest(c, i), F(c), time', next', prev', o)
    BY <2>1, <2>2, <2>4, ChainedFrame
  <2> QED
    BY <2>1, <2>5, ChainedBounded DEF ListOK
<1>13. ListsOK'
  BY <1>11, <1>12 DEF ListsOK, First
<1> QED
  BY <1>9, <1>13

(* Unlinking an event, whatever becomes of its own fields.                  *)
LEMMA UnlinkStep ==
  ASSUME TypeOK, ListsOK, NEW i \in Events,
         type' = [type EXCEPT ![i] = "NONE"], time' = time,
         \A x \in Events \ {i} : /\ next'[x] = UnlinkedNext(i)[x]
                                 /\ prev'[x] = UnlinkedPrev(i)[x],
         nCyclesFirst' = UnlinkedFirst("CYCLES", nCyclesFirst, i),
         nTimeFirst' = UnlinkedFirst("TIME", nTimeFirst, i)
  PROVE  ListsOK'
<1>1. ASSUME NEW c \in {"CYCLES", "TIME"}
      PROVE  ListOK(c, First(c))'
  <2>1. /\ List(c)' = Rest(c, i) /\ Rest(c, i) \subseteq Events \ {i}
        /\ First(c)' = UnlinkedFirst(c, First(c), i)
    BY DEF List, Rest, First, TypeOK, Ids
  <2>2. PICK o : Chained(Rest(c, i), UnlinkedFirst(c, First(c), i), time,
                         UnlinkedNext(i), UnlinkedPrev(i), o)
    BY UnlinkedOK
  <2>3. Chained(Rest(c, i), UnlinkedFirst(c, First(c), i), time', next', prev', o)
    BY <2>1, <2>2, ChainedFrame
  <2> QED
    BY <2>1, <2>3, ChainedBounded DEF ListOK
<1> QED
  BY <1>1 DEF ListsOK, First

(* Taking the head i off its list.                                          *)
LEMMA PopStep ==
  ASSUME TypeOK, ListsOK, NEW k \in {"CYCLES", "TIME"}, NEW i, i = First(k), i # EVENT_NULL,
         type' = [type EXCEPT ![i] = "NONE"], time' = time, next' = next,
         prev' = [prev EXCEPT ![next[i]] = EVENT_NULL],
         nCyclesFirst' = IF k = "CYCLES" THEN next[i] ELSE nCyclesFirst,
         nTimeFirst' = IF k = "TIME" THEN next[i] ELSE nTimeFirst
  PROVE  i \in Events /\ ListsOK' /\ TableTypes'
<1>1. PICK o : Chained(List(k), First(k), time, next, prev, o)
  BY DEF ListsOK, ListOK, First
<1>2. i \in Events /\ type[i] = k /\ prev[i] = EVENT_NULL /\ next[i] \in Ids /\ i \in Ids
  BY <1>1 DEF Chained, Linked, List, TypeOK, Ids
<1>3. \A x \in Events \ {i} : next'[x] = UnlinkedNext(i)[x] /\ prev'[x] = UnlinkedPrev(i)[x]
  BY <1>2, ConstantsAssumption DEF UnlinkedNext, UnlinkedPrev, TypeOK, Ids
<1>4. \A c \in {"CYCLES", "TIME"} : c # k => type[i] # c
  BY <1>2
<1>5. /\ nCyclesFirst' = UnlinkedFirst("CYCLES", nCyclesFirst, i)
      /\ nTimeFirst' = UnlinkedFirst("TIME", nTimeFirst, i)
  BY <1>2, <1>4 DEF UnlinkedFirst, First
<1>6. ListsOK'
  BY <1>2, <1>3, <1>5, UnlinkStep
<1>7. TableTypes'
  BY <1>2, ConstantsAssumption DEF TableTypes, TypeOK, Ids
<1> QED
  BY <1>2, <1>6, <1>7

(* Empty lists are chained. *)
LEMMA EmptyOK ==
  ASSUME NEW k, List(k) = {}, NEW first, first = EVENT_NULL
  PROVE  ListOK(k, first)
<1>1. Chained({}, EVENT_NULL, time, next, prev, {})
  BY DEF Chained, IsOrder, Sorted, Linked
<1> QED
  BY <1>1 DEF ListOK

-----------------------------------------------------------------------------
(* The inductive invariant: the host clock was never polled ahead of time.  *)
IInv == TypeOK /\ ListsOK /\ nTimeNow <= clock

(* Both lists are empty after a reset. *)
LEMMA InitOK == Init => IInv
<1> SUFFICES ASSUME Init PROVE IInv
  OBVIOUS
<1>1. TypeOK /\ nTimeNow <= clock
  BY ConstantsAssumption DEF Init, TypeOK, Ids
<1>2. List("CYCLES") = {} /\ List("TIME") = {}
  BY DEF Init, List, Ids
<1> QED
  BY <1>1, <1>2, EmptyOK DEF IInv, ListsOK, Init

(* What AddCyclesEvent and the like do to the rest of the state. *)
LEMMA TypesTogether ==
  ASSUME TableTypes', nCyclesMainCounter' \in 0..Horizon,
         nCheckCycles' \in 0..Horizon \cup {UINT64_MAX},
         nTimeNow' \in 0..Horizon, clock' \in 0..Horizon,
         pc' \in {"cpu", "cycles", "time"}, running' \in Ids, bRealtime' \in BOOLEAN
  PROVE  TypeOK'
BY DEF TableTypes, TypeOK

(* Every operation that schedules an event.                                 *)
LEMMA ScheduleOK ==
  ASSUME IInv, NEW i \in Events, NEW k \in {"CYCLES", "TIME"}, NEW t \in Nat,
         t <= Horizon, Enqueue(k, i, t),
         UNCHANGED <<nCyclesMainCounter, clock, bRealtime, pc, running>>,
         nTimeNow' \in {nTimeNow, clock}, nCheckCycles' \in 0..Horizon \cup {UINT64_MAX}
  PROVE  IInv'
<1>1. TableTypes' /\ ListsOK'
  BY EnqueueOK DEF IInv
<1>2. TypeOK' /\ (nTimeNow <= clock)'
  BY <1>1, TypesTogether DEF IInv, TypeOK
<1> QED
  BY <1>1, <1>2 DEF IInv

(* A step that leaves the table alone leaves the lists alone. *)
LEMMA TableUnchanged ==
  ASSUME IInv, UNCHANGED table
  PROVE  TableTypes' /\ ListsOK'
BY DEF IInv, table, TypeOK, TableTypes, ListsOK, ListOK, List

(* What a device may call: scheduling, rescheduling and cancelling. *)
LEMMA DeviceCallOK ==
  ASSUME IInv, NEW i \in Events, DeviceCall(i)
  PROVE  IInv'
<1>1. /\ nCyclesMainCounter \in Nat /\ clock \in Nat /\ time[i] \in Nat
      /\ nTimeNow \in {nTimeNow, clock}
      /\ nCheckCycles \in 0..Horizon \cup {UINT64_MAX}
      /\ nCpuFreq \in Nat /\ Horizon \in Nat
      /\ \A n \in Nat : Cap(n) \in 0..Horizon
  BY ConstantsAssumption DEF IInv, TypeOK, Ids, Cap
<1>2. /\ \A d \in Delays : d \in Nat
      /\ \A d \in Delays, fast \in Delays \cup {0} : RealDelay(d, fast) \in Nat
      /\ \A d \in Delays, fast \in Delays \cup {0} : CycleDelay(d, fast) \in Nat
  BY <1>1, ConstantsAssumption DEF RealDelay, CycleDelay
<1>3. ASSUME NEW d \in Nat, AddCyclesEvent(d, i)
      PROVE  IInv'
  BY <1>1, <1>3, ScheduleOK DEF AddCyclesEvent, clocks
<1>4. ASSUME NEW d \in Nat, UpdateCyclesEvent(d, i)
      PROVE  IInv'
  BY <1>1, <1>4, ScheduleOK DEF UpdateCyclesEvent, clocks
<1>5. ASSUME NEW d \in Delays, NEW fast \in Delays \cup {0}, AddTimeEvent(d, fast, i)
      PROVE  IInv'
  <2> DEFINE r == RealDelay(d, fast)
             t == IF bRealtime THEN clock + r ELSE nCyclesMainCounter + d * nCpuFreq
             k == IF bRealtime THEN "TIME" ELSE "CYCLES"
  <2>1. /\ r \in Nat /\ r * nCpuFreq \in Nat /\ d * nCpuFreq \in Nat /\ t \in Nat
        /\ k \in {"CYCLES", "TIME"}
    BY <1>1, <1>2
  <2>2. /\ t <= Horizon /\ Enqueue(k, i, t)
        /\ UNCHANGED <<nCyclesMainCounter, nTimeNow, clock, bRealtime, pc, running>>
        /\ nCheckCycles' \in {nCheckCycles, Cap(nCyclesMainCounter + r * nCpuFreq)}
    BY <1>5 DEF AddTimeEvent
  <2>3. nCheckCycles' \in 0..Horizon \cup {UINT64_MAX}
    BY <1>1, <2>1, <2>2
  <2> HIDE DEF t, k
  <2> QED
    BY <2>1, <2>2, <2>3, <1>1, ScheduleOK
<1>6. ASSUME NEW d \in Delays, NEW fast \in Delays \cup {0}, UpdateTimeEvent(d, fast, i)
      PROVE  IInv'
  <2> DEFINE r == RealDelay(d, fast)
             base == IF clock - time[i] < 0 \/ clock - time[i] > r \div 2
                     THEN clock ELSE time[i]
             t == IF bRealtime THEN base + r ELSE time[i] + d * nCpuFreq
             k == IF bRealtime THEN "TIME" ELSE "CYCLES"
  <2>1. /\ r \in Nat /\ d * nCpuFreq \in Nat /\ base \in Nat
    BY <1>1, <1>2
  <2>2. t \in Nat /\ k \in {"CYCLES", "TIME"}
    BY <2>1, <1>1
  <2>3. /\ t <= Horizon /\ Enqueue(k, i, t)
        /\ UNCHANGED <<nCyclesMainCounter, nCheckCycles, clock, bRealtime, pc, running>>
        /\ nTimeNow' \in {nTimeNow, clock}
    BY <1>6 DEF UpdateTimeEvent
  <2> HIDE DEF t, k
  <2> QED
    BY <2>2, <2>3, <1>1, ScheduleOK
<1>7. ASSUME RemovePendingEvent(i)
      PROVE  IInv'
  <2>1. /\ type' = [type EXCEPT ![i] = "NONE"] /\ time' = time
        /\ next' = UnlinkedNext(i) /\ prev' = UnlinkedPrev(i)
        /\ nCyclesFirst' = UnlinkedFirst("CYCLES", nCyclesFirst, i)
        /\ nTimeFirst' = UnlinkedFirst("TIME", nTimeFirst, i)
        /\ UNCHANGED <<clocks, pc, running>>
    BY <1>7 DEF RemovePendingEvent
  <2>2. ListsOK'
    BY <2>1, UnlinkStep DEF IInv
  <2>3. \A c \in {"CYCLES", "TIME"} :
          /\ UnlinkedNext(i) \in [Ids -> Ids] /\ UnlinkedPrev(i) \in [Ids -> Ids]
          /\ UnlinkedFirst(c, First(c), i) \in Ids
    BY UnlinkedOK DEF IInv
  <2>4. nCyclesFirst' \in Ids /\ nTimeFirst' \in Ids
    BY <2>1, <2>3 DEF First
  <2>5. TableTypes'
    BY <2>1, <2>3, <2>4, ConstantsAssumption DEF IInv, TypeOK, TableTypes, Ids
  <2> QED
    BY <2>1, <2>2, <2>5, TypesTogether DEF IInv, TypeOK, clocks
<1> QED
  BY <1>2, <1>3, <1>4, <1>5, <1>6, <1>7
     DEF DeviceCall, AddCycleTimeEvent, UpdateCycleTimeEvent

(* A cold reset empties both lists, in either mode. *)
LEMMA ResetOK ==
  ASSUME IInv, Reset
  PROVE  IInv'
<1>1. TypeOK' /\ (nTimeNow <= clock)'
  BY ConstantsAssumption DEF IInv, Reset, ResetTable, TypeOK, Ids
<1>2. List("CYCLES")' = {} /\ List("TIME")' = {}
  BY DEF Reset, ResetTable, List, Ids
<1>3. nCyclesFirst' = EVENT_NULL /\ nTimeFirst' = EVENT_NULL
  BY DEF Reset, ResetTable
<1>4. \A k : List(k)' = {} => ListOK(k, EVENT_NULL)'
  BY DEF ListOK, Chained, IsOrder, Sorted, Linked
<1> QED
  BY <1>1, <1>2, <1>3, <1>4 DEF IInv, ListsOK

(* Each iteration of the loops of CycInt_AddCycles. *)
LEMMA DispatchOK ==
  ASSUME IInv, Dispatch
  PROVE  IInv'
<1>1. CASE PopCycles
  <2>1. nCyclesFirst # EVENT_NULL
    BY <1>1, ConstantsAssumption DEF PopCycles, IInv, TypeOK
  <2>2. nCyclesFirst \in Events /\ ListsOK' /\ TableTypes'
    BY <1>1, <2>1, PopStep DEF PopCycles, CallHandler, First, IInv
  <2> QED
    BY <1>1, <2>2, TypesTogether DEF PopCycles, CallHandler, clocks, IInv, TypeOK, Ids
<1>2. CASE PopTime
  <2>1. nTimeFirst \in Events /\ ListsOK' /\ TableTypes'
    BY <1>2, PopStep DEF PopTime, CallHandler, First, IInv
  <2> QED
    BY <1>2, <2>1, TypesTogether DEF PopTime, CallHandler, clocks, IInv, TypeOK, Ids
<1>3. CASE CyclesDone
  BY <1>3, TableUnchanged, TypesTogether DEF CyclesDone, IInv, TypeOK
<1>4. CASE TimeDone
  <2> DEFINE diff == time[nTimeFirst] - nTimeNow
             wait == IF nTimeFirst # EVENT_NULL /\ diff < CHECK_INTERVAL
                     THEN diff ELSE CHECK_INTERVAL
  <2>1. wait \in Nat /\ nCheckCycles' = Cap(nCyclesMainCounter + wait * nCpuFreq)
    BY <1>4, ConstantsAssumption DEF TimeDone, IInv, TypeOK
  <2>2. nCheckCycles' \in 0..Horizon
    <3>1. wait * nCpuFreq \in Nat
      BY <2>1, ConstantsAssumption
    <3> QED
      BY <2>1, <3>1, ConstantsAssumption DEF Cap, IInv, TypeOK
  <2> QED
    BY <1>4, <2>2, TableUnchanged, TypesTogether DEF TimeDone, IInv, TypeOK
<1>5. CASE HandlerReturn
  BY <1>5, TableUnchanged, TypesTogether DEF HandlerReturn, clocks, IInv, TypeOK, Ids
<1> QED
  BY <1>1, <1>2, <1>3, <1>4, <1>5 DEF Dispatch

(* Every step preserves the invariant. *)
LEMMA NextOK == IInv /\ [Next]_vars => IInv'
<1> SUFFICES ASSUME IInv, [Next]_vars PROVE IInv'
  OBVIOUS
<1>1. CASE RunCycles
  BY <1>1, TableUnchanged, TypesTogether, ConstantsAssumption
     DEF RunCycles, AddCycles, Cap, IInv, TypeOK
<1>2. CASE Tick
  BY <1>2, TableUnchanged, TypesTogether, ConstantsAssumption DEF Tick, IInv, TypeOK
<1>3. CASE UNCHANGED vars
  BY <1>3, TableUnchanged, TypesTogether DEF vars, clocks, IInv, TypeOK
<1> QED
  BY <1>1, <1>2, <1>3, DeviceCallOK, ResetOK, DispatchOK DEF Next

(* The type invariant and the well-formedness of both lists, always.        *)
THEOREM Invariance == Spec => []IInv
<1> QED
  BY InitOK, NextOK, PTL DEF Spec

(* Each pending event is on exactly the list of its type, reachable from    *)
(* its head in deadline order, whatever the devices do.                     *)
THEOREM ListsCorrect == Spec => []ListsOK
<1>1. IInv => ListsOK
  BY DEF IInv
<1> QED
  BY <1>1, Invariance, PTL

(* The table's fields and the clocks keep their types. *)
THEOREM TypesCorrect == Spec => []TypeOK
<1>1. IInv => TypeOK
  BY DEF IInv
<1> QED
  BY <1>1, Invariance, PTL

-----------------------------------------------------------------------------
(* What the lists are for.                                                 *)

(* The head of a list is due first. *)
LEMMA HeadOK ==
  ASSUME TypeOK, ListsOK, NEW k \in {"CYCLES", "TIME"}
  PROVE  /\ First(k) = EVENT_NULL => List(k) = {}
         /\ First(k) # EVENT_NULL => First(k) \in List(k)
         /\ \A x \in List(k) : time[First(k)] <= time[x]
<1>1. PICK ord : Chained(List(k), First(k), time, next, prev, ord)
  BY DEF ListsOK, ListOK, First
<1>2. /\ First(k) = EVENT_NULL => List(k) = {}
      /\ First(k) # EVENT_NULL => First(k) \in List(k)
      /\ \A x \in List(k) : x # First(k) => <<First(k), x>> \in ord
  BY <1>1 DEF Chained, Linked
<1>3. \A x, y \in List(k) : <<x, y>> \in ord => time[x] <= time[y]
  BY <1>1 DEF Chained, Sorted
<1>4. ASSUME NEW x \in List(k) PROVE time[First(k)] <= time[x]
  <2>1. First(k) \in List(k) /\ x \in Events /\ time[x] \in Nat
    BY <1>2 DEF List, TypeOK, Ids
  <2>2. CASE x = First(k)
    BY <2>1, <2>2
  <2>3. CASE x # First(k)
    BY <1>2, <1>3, <2>1, <2>3
  <2> QED
    BY <2>2, <2>3
<1> QED
  BY <1>2, <1>4

(* What the abstract queue sees of the state. *)
Queue == [i \in Events |-> type[i]]
Deadline == [i \in Events |-> IF type[i] = "NONE" THEN 0 ELSE time[i]]
Now == [c \in {"CYCLES", "TIME"} |-> IF c = "CYCLES" THEN nCyclesMainCounter ELSE nTimeNow]

(* The clocks that are read do not go back. *)
LEMMA ReadMaps ==
  ASSUME TypeOK, nCyclesMainCounter' \in Nat, nTimeNow' \in Nat,
         nCyclesMainCounter' >= nCyclesMainCounter, nTimeNow' >= nTimeNow
  PROVE  EQ!ClocksAdvance
<1>1. ASSUME NEW c \in {"CYCLES", "TIME"} PROVE Now'[c] >= Now[c]
  BY DEF Now, TypeOK
<1> QED
  BY <1>1 DEF Now, EQ!ClocksAdvance, EQ!Clocks

(* A step that changes no event. *)
LEMMA KeepMaps == UNCHANGED <<type, time>> => Queue' = Queue /\ Deadline' = Deadline
  BY DEF Queue, Deadline

(* Scheduling is scheduling, on either clock. *)
LEMMA ScheduleMaps ==
  ASSUME TypeOK, NEW i \in Events, NEW k \in {"CYCLES", "TIME"}, NEW t, Enqueue(k, i, t),
         nCyclesMainCounter' = nCyclesMainCounter, nTimeNow' \in Nat, nTimeNow' >= nTimeNow,
         running' = running
  PROVE  EQ!Schedule(i)
<1>1. type' = [type EXCEPT ![i] = k] /\ time' = [time EXCEPT ![i] = t]
  BY Zenon DEF Enqueue
<1>2. Queue' = [Queue EXCEPT ![i] = Queue'[i]] /\ Queue'[i] = k
  BY <1>1 DEF Queue, TypeOK, Ids
<1>3. Deadline' = [Deadline EXCEPT ![i] = Deadline'[i]]
  BY <1>1 DEF Deadline, TypeOK, Ids
<1>4. EQ!ClocksAdvance
  BY ReadMaps DEF TypeOK
<1> QED
  BY <1>2, <1>3, <1>4 DEF EQ!Schedule, EQ!Clocks, Queue, Deadline

(* An event taken off its list is idle; *)
LEMMA IdleMaps ==
  ASSUME TypeOK, NEW i \in Events, type' = [type EXCEPT ![i] = "NONE"], time' = time
  PROVE  Queue' = [Queue EXCEPT ![i] = "NONE"] /\ Deadline' = [Deadline EXCEPT ![i] = 0]
<1>1. Queue' = [Queue EXCEPT ![i] = "NONE"]
  BY DEF Queue, TypeOK, Ids
<1>2. Deadline' = [Deadline EXCEPT ![i] = 0]
  BY DEF Deadline, TypeOK, Ids
<1> QED
  BY <1>1, <1>2

(* it fires if it was the head and was due. *)
LEMMA FireMaps ==
  ASSUME TypeOK, ListsOK, NEW k \in {"CYCLES", "TIME"}, NEW i, i = First(k), i \in Events,
         running = EVENT_NULL, CallHandler(i),
         time[i] <= IF k = "CYCLES" THEN nCyclesMainCounter ELSE nTimeNow
  PROVE  EQ!Fire(i)
<1>1. Queue' = [Queue EXCEPT ![i] = "NONE"] /\ Deadline' = [Deadline EXCEPT ![i] = 0]
  BY IdleMaps DEF CallHandler
<1>2. i \in List(k) /\ \A x \in List(k) : time[i] <= time[x]
  BY HeadOK, ConstantsAssumption
<1>3. Queue[i] = k /\ Deadline[i] = time[i]
  BY <1>2 DEF Queue, Deadline, List
<1>4. \A j \in Events : Queue[j] = Queue[i] => Deadline[i] <= Deadline[j]
  BY <1>2, <1>3 DEF Queue, Deadline, List
<1>5. Deadline[i] <= Now[Queue[i]]
  BY <1>3 DEF Now
<1>6. Now' = Now /\ running' = i
  BY DEF CallHandler, clocks, Now
<1>7. Queue[i] \in EQ!Clocks
  BY <1>3 DEF EQ!Clocks
<1> QED
  BY <1>1, <1>4, <1>5, <1>6, <1>7 DEF EQ!Fire, Queue, Deadline, Now

(* Every call of a device schedules an event or cancels one. *)
LEMMA DeviceCallMaps ==
  ASSUME IInv, NEW i \in Events, DeviceCall(i)
  PROVE  EQ!Schedule(i) \/ EQ!Cancel(i)
<1>0. TypeOK /\ nTimeNow \in Nat /\ nTimeNow >= nTimeNow /\ clock \in Nat /\ clock >= nTimeNow
  BY ConstantsAssumption DEF IInv, TypeOK
<1>1. ASSUME NEW k \in {"CYCLES", "TIME"}, NEW t, Enqueue(k, i, t),
             UNCHANGED <<nCyclesMainCounter, running>>, nTimeNow' \in {nTimeNow, clock}
      PROVE  EQ!Schedule(i)
  <2>1. nTimeNow' \in Nat /\ nTimeNow' >= nTimeNow
    BY <1>0, <1>1
  <2> QED
    BY <1>0, <1>1, <2>1, ScheduleMaps
<1>2. ASSUME NEW d, AddCyclesEvent(d, i) \/ UpdateCyclesEvent(d, i)
      PROVE  EQ!Schedule(i)
  <2>1. /\ \E t : Enqueue("CYCLES", i, t)
        /\ UNCHANGED <<nCyclesMainCounter, running, nTimeNow>>
    BY <1>2, Zenon DEF AddCyclesEvent, UpdateCyclesEvent, clocks
  <2> QED
    BY <1>1, <2>1
<1>3. ASSUME NEW d, NEW fast, AddTimeEvent(d, fast, i) \/ UpdateTimeEvent(d, fast, i)
      PROVE  EQ!Schedule(i)
  <2> DEFINE k == IF bRealtime THEN "TIME" ELSE "CYCLES"
  <2>1. /\ \E t : Enqueue(k, i, t)
        /\ UNCHANGED <<nCyclesMainCounter, running>>
    BY <1>3, Zenon DEF AddTimeEvent, UpdateTimeEvent
  <2>2. nTimeNow' \in {nTimeNow, clock}
    BY <1>3 DEF AddTimeEvent, UpdateTimeEvent
  <2>3. k \in {"CYCLES", "TIME"}
    OBVIOUS
  <2> HIDE DEF k
  <2> QED
    BY <1>1, <2>1, <2>2, <2>3
<1>4. ASSUME RemovePendingEvent(i)
      PROVE  EQ!Cancel(i)
  <2>1. Queue' = [Queue EXCEPT ![i] = "NONE"] /\ Deadline' = [Deadline EXCEPT ![i] = 0]
    BY <1>0, <1>4, IdleMaps DEF RemovePendingEvent
  <2>2. Now' = Now /\ running' = running
    BY <1>4 DEF RemovePendingEvent, clocks, Now
  <2> QED
    BY <2>1, <2>2 DEF EQ!Cancel, Queue, Deadline, Now
<1> QED
  BY <1>2, <1>3, <1>4, Zenon DEF DeviceCall, AddCycleTimeEvent, UpdateCycleTimeEvent

(* Each iteration of the loops fires an event, returns from one or reads    *)
(* the clocks.                                                             *)
LEMMA DispatchMaps ==
  ASSUME IInv, Dispatch
  PROVE  EQ!Next
<1>0. TypeOK /\ ListsOK /\ nTimeNow \in Nat /\ clock \in Nat /\ clock >= nTimeNow
      /\ nCyclesMainCounter \in Nat /\ nTimeNow >= nTimeNow
      /\ nCyclesMainCounter >= nCyclesMainCounter
  BY ConstantsAssumption DEF IInv, TypeOK
<1>1. ASSUME NEW i \in Events, EQ!Fire(i) PROVE EQ!Next
  BY <1>1, Zenon DEF EQ!Next
<1>2. CASE PopCycles
  <2>1. nCyclesFirst # EVENT_NULL
    BY <1>2, ConstantsAssumption DEF PopCycles, IInv, TypeOK
  <2>2. nCyclesFirst \in Events /\ nCyclesFirst = First("CYCLES")
    BY <1>0, <2>1 DEF First, TypeOK, Ids
  <2> QED
    BY <1>0, <1>1, <1>2, <2>2, FireMaps DEF PopCycles
<1>3. CASE PopTime
  <2>1. nTimeFirst \in Events /\ nTimeFirst = First("TIME")
    BY <1>0, <1>3 DEF PopTime, First, TypeOK, Ids
  <2> QED
    BY <1>0, <1>1, <1>3, <2>1, FireMaps DEF PopTime
<1>4. CASE CyclesDone \/ TimeDone
  <2>1. UNCHANGED <<type, time, nCyclesMainCounter, running>> /\ nTimeNow' \in {nTimeNow, clock}
    BY <1>4 DEF CyclesDone, TimeDone, table
  <2>2. EQ!ClocksAdvance
    BY <1>0, <2>1, ReadMaps
  <2>3. Queue' = Queue /\ Deadline' = Deadline
    BY <2>1, KeepMaps
  <2>4. EQ!Read
    BY <2>1, <2>2, <2>3 DEF EQ!Read, Queue, Deadline
  <2> QED
    BY <2>4, Zenon DEF EQ!Next
<1>5. CASE HandlerReturn
  <2>1. Queue' = Queue /\ Deadline' = Deadline /\ Now' = Now
    BY <1>5, KeepMaps DEF HandlerReturn, table, clocks, Now
  <2>2. EQ!Return
    BY <1>5, <2>1 DEF HandlerReturn, EQ!Return, Queue, Deadline, Now
  <2> QED
    BY <2>2, Zenon DEF EQ!Next
<1> QED
  BY <1>2, <1>3, <1>4, <1>5, Zenon DEF Dispatch

(* A cold reset empties the queue and restarts the clocks. *)
LEMMA ResetMaps ==
  ASSUME Reset
  PROVE  EQ!Next
<1>1. Queue' = [i \in Events |-> "NONE"] /\ Deadline' = [i \in Events |-> 0]
  BY DEF Reset, ResetTable, Queue, Deadline, Ids
<1>2. Now' = [c \in EQ!Clocks |-> 0] /\ running' = running
  BY DEF Reset, ResetTable, Now, EQ!Clocks
<1>3. EQ!Reset
  BY <1>1, <1>2 DEF EQ!Reset, Queue, Deadline, Now
<1> QED
  BY <1>3, Zenon DEF EQ!Next

(* Every step of the scheduler is a step of the queue, or changes nothing   *)
(* that the devices see.                                                   *)
LEMMA StepMaps == IInv /\ [Next]_vars => [EQ!Next]_EQ!vars
<1> SUFFICES ASSUME IInv, [Next]_vars PROVE [EQ!Next]_EQ!vars
  OBVIOUS
<1>0. nCyclesMainCounter \in 0 .. Horizon /\ Horizon \in Nat /\ TypeOK
      /\ nTimeNow \in Nat /\ nTimeNow >= nTimeNow
  BY ConstantsAssumption DEF IInv, TypeOK
<1>1. CASE RunCycles
  <2>1. PICK c \in Cycles : AddCycles(c)
    BY <1>1 DEF RunCycles
  <2>2. UNCHANGED <<type, time, nTimeNow, running>>
        /\ nCyclesMainCounter' = Cap(nCyclesMainCounter + c)
    BY <2>1 DEF AddCycles, table
  <2>3. nCyclesMainCounter' \in Nat /\ nCyclesMainCounter' >= nCyclesMainCounter
    BY <1>0, <2>2, ConstantsAssumption DEF Cap
  <2>4. EQ!ClocksAdvance
    BY <1>0, <2>2, <2>3, ReadMaps
  <2>5. Queue' = Queue /\ Deadline' = Deadline
    BY <2>2, KeepMaps
  <2>6. EQ!Read
    BY <2>2, <2>4, <2>5 DEF EQ!Read, Queue, Deadline
  <2> QED
    BY <2>6, Zenon DEF EQ!Next
<1>2. CASE Tick \/ UNCHANGED vars
  <2>1. UNCHANGED <<type, time, nTimeNow, nCyclesMainCounter, running>>
    BY <1>2 DEF Tick, vars, table, clocks
  <2>2. Queue' = Queue /\ Deadline' = Deadline /\ Now' = Now
    BY <2>1, KeepMaps DEF Now
  <2>3. UNCHANGED EQ!vars
    BY <2>1, <2>2 DEF EQ!vars, Queue, Deadline, Now
  <2> QED
    BY <2>3
<1>3. CASE \E i \in Events : DeviceCall(i)
  <2>1. PICK i \in Events : DeviceCall(i)
    BY <1>3
  <2>2. EQ!Schedule(i) \/ EQ!Cancel(i)
    BY <2>1, DeviceCallMaps
  <2> QED
    BY <2>2, Zenon DEF EQ!Next
<1> QED
  BY <1>1, <1>2, <1>3, ResetMaps, DispatchMaps, Zenon DEF Next

(* The refinement: to the devices the two threaded lists are a queue, from  *)
(* which an event fires only when due, once, and never before an earlier   *)
(* event of its clock (cycInt.c:114-283).                                  *)
THEOREM Refinement == Spec => ImplementsEventQueue
<1>1. Init => EQ!Init
  <2> SUFFICES ASSUME Init PROVE EQ!Init
    OBVIOUS
  <2>1. Queue = [i \in Events |-> "NONE"] /\ Deadline = [i \in Events |-> 0]
    BY DEF Init, Queue, Deadline, Ids
  <2>2. Now = [c \in EQ!Clocks |-> 0] /\ running = EVENT_NULL
    BY DEF Init, Now, EQ!Clocks
  <2> QED
    BY <2>1, <2>2 DEF EQ!Init, Queue, Deadline, Now
<1> QED
  BY <1>1, Invariance, StepMaps, PTL DEF Spec, ImplementsEventQueue, EQ!Spec

-----------------------------------------------------------------------------
(* The poll of the host clock.                                             *)

(* Cycles in x microseconds. *)
Ticks(x) == nCpuFreq * x

(* Cycles of a number of microseconds grow with it. *)
LEMMA TicksOK ==
  /\ \A x \in Int : Ticks(x) \in Int
  /\ \A x, y \in Int : x <= y => Ticks(x) <= Ticks(y)
  /\ \A x \in Nat : x * nCpuFreq = Ticks(x) /\ Ticks(x) \in Nat
<1>1. nCpuFreq \in Nat \ {0}
  BY ConstantsAssumption
<1>2. \A x \in Int : nCpuFreq * x \in Int
  BY <1>1, SMTT(30)
<1>3. ASSUME NEW x \in Int, NEW y \in Int, x <= y PROVE nCpuFreq * x <= nCpuFreq * y
  <2>1. nCpuFreq * (y - x) >= 0
    BY <1>1, <1>3, SMTT(30)
  <2> QED
    BY <1>1, <1>3, <2>1, SMTT(30)
<1>4. \A x \in Nat : x * nCpuFreq = nCpuFreq * x /\ nCpuFreq * x \in Nat
  BY <1>1, SMTT(30)
<1> QED
  BY <1>2, <1>3, <1>4 DEF Ticks

(* How far away the next poll may be: never further than an interval, and   *)
(* no further than the head of the list.  While that list is worked on the *)
(* next poll is not set yet.                                               *)
Wait(first, at) == IF first # EVENT_NULL /\ at < CHECK_INTERVAL THEN at ELSE CHECK_INTERVAL

Polled ==
  bRealtime /\ pc # "time" =>
    nCheckCycles <= nCyclesMainCounter + Ticks(Wait(nTimeFirst, time[nTimeFirst] - nTimeNow))

(* A head that is due later, or none, needs no earlier poll. *)
LEMMA PolledLater ==
  ASSUME TypeOK, Polled, TypeOK',
         UNCHANGED <<nCheckCycles, bRealtime, pc, nTimeNow>>,
         nCyclesMainCounter' >= nCyclesMainCounter,
         \/ nTimeFirst' = EVENT_NULL
         \/ nTimeFirst # EVENT_NULL /\ time[nTimeFirst] <= (time[nTimeFirst])'
         \/ time[nTimeFirst]' - nTimeNow >= CHECK_INTERVAL
  PROVE  Polled'
<1> DEFINE w == Wait(nTimeFirst, time[nTimeFirst] - nTimeNow)
<1>1. /\ nTimeNow \in Int /\ time[nTimeFirst] \in Int /\ (time[nTimeFirst])' \in Int
      /\ CHECK_INTERVAL \in Int /\ nCyclesMainCounter \in Int /\ nCyclesMainCounter' \in Int
      /\ nCheckCycles \in Int
  BY ConstantsAssumption DEF TypeOK
<1>2. w \in Int /\ w' \in Int /\ w <= w'
  BY <1>1 DEF Wait
<1>3. Ticks(w) \in Int /\ Ticks(w') \in Int /\ Ticks(w) <= Ticks(w')
  BY <1>2, TicksOK
<1> HIDE DEF w
<1>4. ASSUME bRealtime', pc' # "time"
      PROVE  nCheckCycles' <= nCyclesMainCounter' + Ticks(w')
  <2>1. bRealtime /\ pc # "time"
    BY <1>4, Zenon
  <2>2. nCheckCycles <= nCyclesMainCounter + Ticks(w)
    BY <2>1, Zenon DEF Polled, w
  <2> QED
    BY <1>1, <1>3, <2>2
<1> QED
  BY <1>4, Zenon DEF Polled, w

(* Where the head is another event than the one moved, it is due no sooner  *)
(* than the head before.                                                   *)
LEMMA HeadLater ==
  ASSUME TypeOK, ListsOK, ListsOK', NEW i \in Events,
         \A x \in Events \ {i} : type'[x] = type[x] /\ time'[x] = time[x],
         type'[i] # "TIME" \/ nTimeFirst' # i
  PROVE  \/ nTimeFirst' = EVENT_NULL
         \/ nTimeFirst # EVENT_NULL /\ time[nTimeFirst] <= (time[nTimeFirst])'
<1> SUFFICES ASSUME nTimeFirst' # EVENT_NULL
             PROVE  nTimeFirst # EVENT_NULL /\ time[nTimeFirst] <= (time[nTimeFirst])'
  OBVIOUS
<1>1. nTimeFirst' \in List("TIME")'
  BY DEF ListsOK, ListOK, Chained, Linked
<1>2. nTimeFirst' \in Events \ {i} /\ type'[nTimeFirst'] = "TIME"
  BY <1>1 DEF List
<1>3. nTimeFirst' \in List("TIME") /\ (time[nTimeFirst])' = time[nTimeFirst']
  BY <1>2 DEF List
<1>4. nTimeFirst = First("TIME")
  BY DEF First
<1> QED
  BY <1>3, <1>4, HeadOK

(* What a device calls keeps the poll in time. *)
LEMMA DeviceCallPolled ==
  ASSUME IInv, Polled, NEW i \in Events, DeviceCall(i)
  PROVE  Polled'
<1>0. /\ TypeOK /\ ListsOK /\ TypeOK' /\ ListsOK'
      /\ nCyclesMainCounter \in Nat /\ clock \in Nat /\ nTimeNow \in Nat /\ nTimeNow <= clock
      /\ nCyclesMainCounter >= nCyclesMainCounter /\ Horizon \in Nat
  BY DeviceCallOK, ConstantsAssumption DEF IInv, TypeOK
<1>1. ASSUME NEW k \in {"CYCLES", "TIME"}, NEW t, Enqueue(k, i, t), k = "CYCLES" \/ nTimeFirst' # i,
             UNCHANGED <<nCyclesMainCounter, nCheckCycles, nTimeNow>>,
             bRealtime' = bRealtime, pc' = pc
      PROVE  Polled'
  <2>1. type' = [type EXCEPT ![i] = k] /\ time' = [time EXCEPT ![i] = t]
    BY <1>1, Zenon DEF Enqueue
  <2>2. \A x \in Events \ {i} : type'[x] = type[x] /\ time'[x] = time[x]
    BY <1>0, <2>1 DEF TypeOK, Ids
  <2>3. type'[i] # "TIME" \/ nTimeFirst' # i
    BY <1>0, <1>1, <2>1 DEF TypeOK, Ids
  <2>4. \/ nTimeFirst' = EVENT_NULL
        \/ nTimeFirst # EVENT_NULL /\ time[nTimeFirst] <= (time[nTimeFirst])'
    BY <1>0, <2>2, <2>3, HeadLater
  <2> QED
    BY <1>0, <1>1, <2>4, PolledLater
<1>2. ASSUME NEW d, AddCyclesEvent(d, i) \/ UpdateCyclesEvent(d, i)
      PROVE  Polled'
  <2>1. /\ \E t : Enqueue("CYCLES", i, t)
        /\ UNCHANGED <<nCyclesMainCounter, nCheckCycles, nTimeNow>>
        /\ bRealtime' = bRealtime /\ pc' = pc
    BY <1>2, Zenon DEF AddCyclesEvent, UpdateCyclesEvent, clocks
  <2> QED
    BY <1>1, <2>1, Zenon
<1>3. ASSUME NEW d \in Delays, NEW fast \in Delays \cup {0}, AddTimeEvent(d, fast, i)
      PROVE  Polled'
  <2> DEFINE r == RealDelay(d, fast)
             t == IF bRealtime THEN clock + r ELSE nCyclesMainCounter + d * nCpuFreq
             k == IF bRealtime THEN "TIME" ELSE "CYCLES"
  <2>1. /\ Enqueue(k, i, t) /\ bRealtime' = bRealtime /\ pc' = pc
        /\ UNCHANGED <<nCyclesMainCounter, nTimeNow>>
        /\ nCheckCycles' = IF bRealtime /\ r < CHECK_INTERVAL /\ i = nTimeFirst'
                           THEN Cap(nCyclesMainCounter + r * nCpuFreq) ELSE nCheckCycles
    BY <1>3, Zenon DEF AddTimeEvent
  <2>2. r \in Nat
    BY ConstantsAssumption DEF RealDelay
  <2>3. CASE ~bRealtime
    BY <2>1, <2>3, Zenon DEF Polled
  <2>4. CASE bRealtime /\ nTimeFirst' # i
    <3>1. nCheckCycles' = nCheckCycles /\ Enqueue("TIME", i, t)
      BY <2>1, <2>4
    <3> HIDE DEF t
    <3> QED
      BY <1>1, <2>1, <2>4, <3>1
  <2>5. CASE bRealtime /\ nTimeFirst' = i
    <3>1. time' = [time EXCEPT ![i] = clock + r]
      BY <2>1, <2>5, Zenon DEF Enqueue
    <3> HIDE DEF r
    <3>2. (time[nTimeFirst])' = clock + r /\ clock + r - nTimeNow >= r
      BY <1>0, <2>2, <2>5, <3>1 DEF TypeOK, Ids
    <3>3. CASE r >= CHECK_INTERVAL
      <4>1. nCheckCycles' = nCheckCycles
        BY <2>1, <2>2, <3>3, ConstantsAssumption
      <4>2. time[nTimeFirst]' - nTimeNow >= CHECK_INTERVAL
        BY <1>0, <2>2, <3>2, <3>3, ConstantsAssumption
      <4> QED
        BY <1>0, <2>1, <4>1, <4>2, PolledLater
    <3>4. CASE r < CHECK_INTERVAL
      <4> DEFINE w == Wait(nTimeFirst', (time[nTimeFirst])' - nTimeNow')
      <4>1. w \in Int /\ r <= w
        BY <1>0, <2>1, <2>2, <3>2, <3>4, ConstantsAssumption DEF Wait
      <4>2. /\ r * nCpuFreq = Ticks(r) /\ Ticks(r) \in Nat /\ Ticks(w) \in Int
            /\ Ticks(r) <= Ticks(w)
        BY <2>2, <4>1, TicksOK
      <4>3. nCheckCycles' = Cap(nCyclesMainCounter + Ticks(r))
        BY <2>1, <2>5, <3>4, <4>2
      <4>4. nCheckCycles' \in Nat /\ nCheckCycles' <= nCyclesMainCounter + Ticks(r)
        BY <1>0, <4>2, <4>3 DEF Cap
      <4> HIDE DEF w
      <4>5. nCheckCycles' <= nCyclesMainCounter' + Ticks(w)
        BY <1>0, <2>1, <4>2, <4>4
      <4> QED
        BY <4>5, Zenon DEF Polled, w
    <3> QED
      BY <2>2, <3>3, <3>4, ConstantsAssumption
  <2> QED
    BY <2>3, <2>4, <2>5
<1>4. ASSUME NEW d, NEW fast, UpdateTimeEvent(d, fast, i)
      PROVE  Polled'
  <2>1. bRealtime' = bRealtime /\ pc' = pc /\ pc = IF bRealtime THEN "time" ELSE "cycles"
    BY <1>4, Zenon DEF UpdateTimeEvent
  <2>2. bRealtime' => pc' = "time"
    BY <2>1, Zenon
  <2> QED
    BY <2>2, Zenon DEF Polled
<1>5. ASSUME RemovePendingEvent(i)
      PROVE  Polled'
  <2>1. /\ type' = [type EXCEPT ![i] = "NONE"] /\ time' = time
        /\ UNCHANGED <<nCyclesMainCounter, nCheckCycles, nTimeNow>>
        /\ bRealtime' = bRealtime /\ pc' = pc
    BY <1>5, Zenon DEF RemovePendingEvent, clocks
  <2>2. /\ \A x \in Events \ {i} : type'[x] = type[x] /\ time'[x] = time[x]
        /\ type'[i] # "TIME"
    BY <1>0, <2>1 DEF TypeOK, Ids
  <2>3. \/ nTimeFirst' = EVENT_NULL
        \/ nTimeFirst # EVENT_NULL /\ time[nTimeFirst] <= (time[nTimeFirst])'
    BY <1>0, <2>2, HeadLater
  <2> QED
    BY <1>0, <2>1, <2>3, PolledLater
<1> QED
  BY <1>2, <1>3, <1>4, <1>5, Zenon DEF DeviceCall, AddCycleTimeEvent, UpdateCycleTimeEvent

(* So does every other step: the loop over the time list ends with it set.  *)
LEMMA PolledOK == IInv /\ Polled /\ [Next]_vars => Polled'
<1> SUFFICES ASSUME IInv, Polled, [Next]_vars PROVE Polled'
  OBVIOUS
<1>0. /\ TypeOK /\ TypeOK' /\ Horizon \in Nat /\ nCyclesMainCounter \in 0 .. Horizon
      /\ nCyclesMainCounter >= nCyclesMainCounter /\ nCyclesMainCounter \in Nat
      /\ time[nTimeFirst] \in Nat /\ time[nTimeFirst] <= time[nTimeFirst]
  BY NextOK, ConstantsAssumption DEF IInv, TypeOK
<1>1. ASSUME UNCHANGED <<time, nTimeFirst, nCheckCycles, nTimeNow>>,
             bRealtime' = bRealtime, pc' = pc,
             nCyclesMainCounter' >= nCyclesMainCounter
      PROVE  Polled'
  BY <1>0, <1>1, PolledLater
<1>2. CASE \E i \in Events : DeviceCall(i)
  BY <1>2, DeviceCallPolled
<1>3. CASE Reset
  <2>1. /\ nCheckCycles' = IF bRealtime' THEN 0 ELSE UINT64_MAX
        /\ nTimeFirst' = EVENT_NULL /\ nCyclesMainCounter' = 0
    BY <1>3, Zenon DEF Reset, ResetTable
  <2>2. Wait(nTimeFirst', (time[nTimeFirst])' - nTimeNow') = CHECK_INTERVAL
    BY <2>1 DEF Wait
  <2>3. Ticks(CHECK_INTERVAL) \in Nat
    BY TicksOK, ConstantsAssumption
  <2>4. bRealtime' => nCheckCycles' <= nCyclesMainCounter' + Ticks(CHECK_INTERVAL)
    BY <2>1, <2>3
  <2> QED
    BY <2>2, <2>4, Zenon DEF Polled
<1>4. CASE RunCycles
  <2>1. PICK c \in Cycles : AddCycles(c)
    BY <1>4 DEF RunCycles
  <2>2. /\ UNCHANGED <<time, nTimeFirst, nCheckCycles, nTimeNow>> /\ bRealtime' = bRealtime
        /\ nCyclesMainCounter' = Cap(nCyclesMainCounter + c) /\ pc = "cpu" /\ pc' = "cycles"
    BY <2>1, Zenon DEF AddCycles, table
  <2>3. nCyclesMainCounter' \in Nat /\ nCyclesMainCounter' >= nCyclesMainCounter
    BY <1>0, <2>2, ConstantsAssumption DEF Cap
  <2> DEFINE w == Ticks(Wait(nTimeFirst, time[nTimeFirst] - nTimeNow))
  <2>4. bRealtime => nCheckCycles <= nCyclesMainCounter + w
    BY <2>2, Zenon DEF Polled
  <2>5. w \in Int
    <3>1. time[nTimeFirst] - nTimeNow \in Int
      BY <1>0, ConstantsAssumption DEF TypeOK
    <3>2. Wait(nTimeFirst, time[nTimeFirst] - nTimeNow) \in Int
      BY <3>1, ConstantsAssumption DEF Wait
    <3> QED
      BY <3>2, TicksOK
  <2>6. w' = w
    BY <2>2
  <2>7. nCheckCycles \in Int
    BY <1>0, ConstantsAssumption DEF TypeOK
  <2> HIDE DEF w
  <2>8. bRealtime => nCheckCycles' <= nCyclesMainCounter' + w'
    BY <1>0, <2>2, <2>3, <2>4, <2>5, <2>6, <2>7
  <2>9. bRealtime' => nCheckCycles' <= nCyclesMainCounter' + w'
    BY <2>2, <2>8, Zenon
  <2> QED
    BY <2>9, Zenon DEF Polled, w
<1>5. CASE PopCycles
  <2>1. UNCHANGED <<time, nTimeFirst, nCheckCycles, nTimeNow, nCyclesMainCounter>>
        /\ bRealtime' = bRealtime /\ pc' = pc
    BY <1>5, Zenon DEF PopCycles, CallHandler, clocks
  <2> QED
    BY <1>0, <1>1, <2>1
<1>6. CASE PopTime
  <2>1. pc' = "time"
    BY <1>6 DEF PopTime, CallHandler
  <2> QED
    BY <2>1, Zenon DEF Polled
<1>7. CASE CyclesDone
  <2>1. CASE pc' = "time"
    BY <2>1, Zenon DEF Polled
  <2>2. CASE pc' # "time"
    <3>1. /\ UNCHANGED <<time, nTimeFirst, nCheckCycles, nTimeNow, nCyclesMainCounter>>
          /\ pc = "cycles"
      BY <1>7, <2>2 DEF CyclesDone, table
    <3>2. bRealtime' = bRealtime
      BY <1>7, Zenon DEF CyclesDone
    <3>3. Wait(nTimeFirst, time[nTimeFirst] - nTimeNow)'
            = Wait(nTimeFirst, time[nTimeFirst] - nTimeNow)
      BY <3>1
    <3>4. pc # "time" /\ (bRealtime' => bRealtime)
      BY <3>1, <3>2, Zenon
    <3> QED
      BY <3>1, <3>3, <3>4, Zenon DEF Polled
  <2> QED
    BY <2>1, <2>2
<1>8. CASE TimeDone
  <2> DEFINE diff == time[nTimeFirst] - nTimeNow
             w == Wait(nTimeFirst, diff)
  <2>1. /\ nTimeFirst # EVENT_NULL => diff > 0
        /\ nCheckCycles' = Cap(nCyclesMainCounter + w * nCpuFreq)
        /\ UNCHANGED <<time, nTimeFirst, nCyclesMainCounter, nTimeNow>>
    BY <1>8 DEF TimeDone, table, Wait
  <2>2. w \in Nat
    <3>1. diff \in Int
      BY <1>0, ConstantsAssumption DEF TypeOK
    <3> HIDE DEF diff
    <3> QED
      BY <2>1, <3>1, ConstantsAssumption DEF Wait
  <2>3. w' = w
    BY <2>1
  <2> HIDE DEF w
  <2>4. w * nCpuFreq = Ticks(w) /\ Ticks(w) \in Nat
    BY <2>2, TicksOK
  <2>5. Cap(nCyclesMainCounter + Ticks(w)) <= nCyclesMainCounter + Ticks(w)
    BY <1>0, <2>4 DEF Cap
  <2>6. nCheckCycles' <= nCyclesMainCounter' + Ticks(w')
    BY <2>1, <2>3, <2>4, <2>5
  <2> QED
    BY <2>6, Zenon DEF Polled, w
<1>9. CASE HandlerReturn \/ Tick \/ UNCHANGED vars
  <2>1. UNCHANGED <<time, nTimeFirst, nCheckCycles, nTimeNow, nCyclesMainCounter>>
        /\ bRealtime' = bRealtime /\ pc' = pc
    BY <1>9, Zenon DEF HandlerReturn, Tick, vars, table, clocks
  <2> QED
    BY <1>0, <1>1, <2>1
<1> QED
  BY <1>2, <1>3, <1>4, <1>5, <1>6, <1>7, <1>8, <1>9, Zenon DEF Next, Dispatch

(* In realtime mode the host clock is polled before the first event is due, *)
(* however that event came to be the first one (cycInt.c:124-145, 213-215). *)
THEOREM PollsInTime == Spec => []PollInTime
<1>1. Init => Polled
  <2> SUFFICES ASSUME Init PROVE Polled
    OBVIOUS
  <2>1. Wait(nTimeFirst, time[nTimeFirst] - nTimeNow) = CHECK_INTERVAL
    BY DEF Init, Wait
  <2>2. Ticks(CHECK_INTERVAL) \in Nat
    BY TicksOK, ConstantsAssumption
  <2>3. bRealtime => nCheckCycles <= nCyclesMainCounter + Ticks(CHECK_INTERVAL)
    BY <2>2 DEF Init
  <2> QED
    BY <2>1, <2>3, Zenon DEF Polled
<1>2. Polled => PollInTime
  <2> SUFFICES ASSUME Polled, bRealtime, pc = "cpu", nTimeFirst # EVENT_NULL
               PROVE  nCheckCycles <= nCyclesMainCounter + Ticks(
                        IF time[nTimeFirst] - nTimeNow < CHECK_INTERVAL
                        THEN time[nTimeFirst] - nTimeNow ELSE CHECK_INTERVAL)
    BY Zenon DEF PollInTime, Ticks
  <2>1. Wait(nTimeFirst, time[nTimeFirst] - nTimeNow)
          = IF time[nTimeFirst] - nTimeNow < CHECK_INTERVAL
            THEN time[nTimeFirst] - nTimeNow ELSE CHECK_INTERVAL
    BY DEF Wait
  <2>2. pc # "time"
    OBVIOUS
  <2> QED
    BY <2>1, <2>2, Zenon DEF Polled
<1> QED
  BY <1>1, <1>2, InitOK, NextOK, PolledOK, PTL DEF Spec
=============================================================================
