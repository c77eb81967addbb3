------------------------- MODULE SystemManagerProofs -------------------------
(***************************************************************************)
(* The services are destroyed in the reversed order of their creation, and *)
(* all of them but those of the whitelist, for any services, whitelists    *)
(* and close reasons, and any number of requests to close or restore the   *)
(* system, low battery reports, keys and changes of the charger.           *)
(***************************************************************************)
EXTENDS SystemManager, FiniteSetTheorems, SequenceTheorems, WellFoundedInduction, TLAPS

-----------------------------------------------------------------------------
(***************************************************************************)
(* The parts of the inductive invariant.                                   *)
(***************************************************************************)

\* The list is in the order of creation until it is reversed, whatever was
\* erased from it.
Rising(l) == \A i, j \in DOMAIN l : i < j => Age(l[i]) < Age(l[j])
Falling(l) == \A i, j \in DOMAIN l : i < j => Age(l[j]) < Age(l[i])

List ==
    /\ servicesList \in Seq(Services)
    /\ serviceListReversed \in BOOLEAN
    /\ ~serviceListReversed => Rising(servicesList)
    /\ serviceListReversed => Falling(servicesList)

\* A timer that can end in CloseServices belongs to a list that was reversed.
Waiting ==
    /\ timer \in [object : Nat, active : BOOLEAN, armed : BOOLEAN]
    /\ timer.active => serviceListReversed

\* The pass of DestroyServices: what lies behind it is on its whitelist.
InPass == pc \in {"destroy", "exitwait"}
Passed ==
    InPass =>
        /\ serviceListReversed
        /\ destroy = [whitelist |-> destroy.whitelist, pos |-> destroy.pos,
                      next |-> destroy.next]
        /\ destroy.pos \in Nat \ {0}
        /\ pc = "exitwait" => destroy.pos <= Len(servicesList)
        /\ \A i \in DOMAIN servicesList :
              i < destroy.pos => servicesList[i] \in destroy.whitelist
        /\ destroy.next # "Running" =>
              destroy.whitelist = CloseWhiteList \/ Elems(servicesList) \subseteq CloseWhiteList

ManagerInv == List /\ Waiting /\ Passed /\ NonWhitelistedGone

-----------------------------------------------------------------------------
(***************************************************************************)
(* The list of services.                                                   *)
(***************************************************************************)

\* No service is created twice, so Age finds the position of a service.
LEMMA AgeOfCreated ==
    /\ Created \in Seq(Services)
    /\ \A i \in DOMAIN Created : Age(Created[i]) = i
<1>1. /\ Created \in Seq(Services) /\ Cardinality(Services) = Len(Created)
      /\ DOMAIN Created = 1 .. Len(Created) /\ Len(Created) \in Nat
      BY SystemManagerAssumption
<1>2. Created \in Surjection(1 .. Len(Created), Services)
    <2>1. Created \in [1 .. Len(Created) -> Services]
          BY <1>1
    <2>2. \A s \in Services : \E i \in 1 .. Len(Created) : Created[i] = s
          BY <1>1 DEF Services
    <2> QED
        BY <2>1, <2>2 DEF Surjection
<1>3. IsFiniteSet(1 .. Len(Created)) /\ Cardinality(1 .. Len(Created)) = Len(Created)
    <2>1. PICK n \in Nat : n = Len(Created)
          BY <1>1
    <2>2. IsFiniteSet(1 .. n) /\ Cardinality(1 .. n) = IF 1 > n THEN 0 ELSE n - 1 + 1
          BY FS_Interval
    <2>3. (IF 1 > n THEN 0 ELSE n - 1 + 1) = n
          OBVIOUS
    <2> QED
        BY <2>1, <2>2, <2>3
<1>4. Created \in Injection(1 .. Len(Created), Services)
      BY <1>1, <1>2, <1>3, FS_SurjSameCardinalityImpliesInj
<1>5. \A i, j \in DOMAIN Created : Created[i] = Created[j] => i = j
      BY <1>1, <1>4 DEF Injection, IsInjective
<1>6. \A i \in DOMAIN Created : Age(Created[i]) = i
      BY <1>5 DEF Age
<1> QED
    BY <1>1, <1>6

\* The age of a service is a number.
LEMMA AgeType == \A s \in Services : Age(s) \in Nat
<1> SUFFICES ASSUME NEW s \in Services PROVE Age(s) \in Nat
    OBVIOUS
<1>1. PICK i \in DOMAIN Created : Created[i] = s
      BY DEF Services
<1>2. Age(s) = i
      BY <1>1, AgeOfCreated
<1> QED
    BY <1>1, <1>2, AgeOfCreated

\* std::reverse
LEMMA ReverseFacts ==
    ASSUME NEW l \in Seq(Services), NEW r, r = Reverse(l)
    PROVE  /\ r \in Seq(Services)
           /\ Elems(r) \subseteq Elems(l)
           /\ Rising(l) => Falling(r)
<1>1. PICK n \in Nat : n = Len(l) /\ DOMAIN l = 1 .. n
      OBVIOUS
<1>2. r = [i \in 1 .. n |-> l[n + 1 - i]]
      BY <1>1 DEF Reverse
<1>3. \A i \in 1 .. n : n + 1 - i \in 1 .. n
      OBVIOUS
<1>4. r \in [1 .. n -> Services]
      BY <1>1, <1>2, <1>3
<1>5. r \in Seq(Services) /\ DOMAIN r = 1 .. n
      BY <1>4
<1>6. \A i \in 1 .. n : r[i] = l[n + 1 - i]
      BY <1>2
<1>7. Elems(r) \subseteq Elems(l)
      BY <1>1, <1>3, <1>5, <1>6 DEF Elems
<1>8. ASSUME Rising(l), NEW i \in 1 .. n, NEW j \in 1 .. n, i < j
      PROVE  Age(r[j]) < Age(r[i])
    <2>1. n + 1 - j < n + 1 - i /\ n + 1 - j \in DOMAIN l /\ n + 1 - i \in DOMAIN l
          BY <1>1, <1>8
    <2>2. Age(l[n + 1 - j]) < Age(l[n + 1 - i])
          BY <1>8, <2>1 DEF Rising
    <2> QED
        BY <1>6, <2>2
<1> QED
    BY <1>5, <1>7, <1>8 DEF Falling

\* erase
LEMMA EraseFacts ==
    ASSUME NEW l \in Seq(Services), NEW n \in DOMAIN l, NEW r, r = RemoveAt(l, n)
    PROVE  /\ r \in Seq(Services)
           /\ DOMAIN r = 1 .. (Len(l) - 1)
           /\ \A i \in DOMAIN r : i < n => i \in DOMAIN l /\ r[i] = l[i]
           /\ Elems(r) \subseteq Elems(l)
           /\ \A x \in Elems(l) : x \notin Elems(r) => x = l[n]
           /\ Rising(l) => Rising(r)
           /\ Falling(l) => Falling(r)
<1>1. PICK m \in Nat : m = Len(l) /\ DOMAIN l = 1 .. m
      OBVIOUS
<1>2. n \in 1 .. m
      BY <1>1
<1>3. PICK a, b : a = SubSeq(l, 1, n - 1) /\ b = SubSeq(l, n + 1, m)
      OBVIOUS
<1>4. /\ a \in Seq(Services) /\ Len(a) = n - 1
      /\ \A i \in 1 .. (n - 1) : a[i] = l[i]
    <2>1. \A i \in 1 .. (n - 1) : l[i] \in Services
          BY <1>1, <1>2
    <2>2. /\ a \in Seq(Services)
          /\ Len(a) = IF 1 <= n - 1 THEN (n - 1) - 1 + 1 ELSE 0
          /\ \A i \in 1 .. (n - 1) - 1 + 1 : a[i] = l[1 + i - 1]
          BY <1>2, <1>3, <2>1, SubSeqProperties
    <2>3. (n - 1) - 1 + 1 = n - 1 /\ \A i \in Int : 1 + i - 1 = i
          BY <1>2
    <2>4. Len(a) = n - 1
          BY <1>2, <2>2
    <2> QED
        BY <2>2, <2>3, <2>4
<1>5. /\ b \in Seq(Services) /\ Len(b) = m - n
      /\ \A i \in 1 .. (m - n) : b[i] = l[n + i]
    <2>1. \A i \in (n + 1) .. m : l[i] \in Services
          BY <1>1, <1>2
    <2>0. PICK p : p = n + 1
          OBVIOUS
    <2>2. p \in Int /\ b = SubSeq(l, p, m) /\ \A i \in p .. m : l[i] \in Services
        <3>1. p \in Int
              BY <1>2, <2>0
        <3> QED
            BY <1>3, <2>0, <2>1, <3>1
    <2>3. /\ b \in Seq(Services)
          /\ Len(b) = IF p <= m THEN m - p + 1 ELSE 0
          /\ \A i \in 1 .. m - p + 1 : b[i] = l[p + i - 1]
          BY <1>1, <2>2, SubSeqProperties
    <2>4. n \in Nat /\ n <= m
          BY <1>2
    <2>5. Len(b) = m - n
          BY <1>1, <2>0, <2>2, <2>3, <2>4
    <2>6. ASSUME NEW i \in 1 .. (m - n) PROVE b[i] = l[n + i]
        <3>1. i \in 1 .. m - p + 1 /\ p + i - 1 = n + i
              BY <1>1, <2>0, <2>4
        <3> QED
            BY <2>3, <3>1
    <2> QED
        BY <2>3, <2>5, <2>6
<1>6. r = a \o b
      BY <1>1, <1>3 DEF RemoveAt
<1>7. /\ r \in Seq(Services) /\ Len(r) = m - 1
      /\ DOMAIN r = 1 .. (m - 1)
    <2>1. r \in Seq(Services) /\ Len(r) = Len(a) + Len(b)
          BY <1>4, <1>5, <1>6, ConcatProperties
    <2>2. Len(r) = m - 1
          BY <1>2, <1>4, <1>5, <2>1
    <2> QED
        BY <2>1, <2>2
<1>8. \A i \in 1 .. (m - 1) : r[i] = IF i <= n - 1 THEN a[i] ELSE b[i - (n - 1)]
    <2>1. \A i \in 1 .. Len(a) + Len(b) : r[i] = IF i <= Len(a) THEN a[i] ELSE b[i - Len(a)]
        <3>1. \A i \in 1 .. Len(a) + Len(b) :
                 (a \o b)[i] = IF i <= Len(a) THEN a[i] ELSE b[i - Len(a)]
              BY <1>4, <1>5, ConcatProperties
        <3> QED
            BY <1>6, <3>1, Zenon
    <2>2. Len(a) + Len(b) = m - 1 /\ Len(a) = n - 1
          BY <1>2, <1>4, <1>5
    <2> QED
        BY <2>1, <2>2
<1>9. ASSUME NEW i \in 1 .. (m - 1)
      PROVE  /\ i < n => i \in 1 .. m /\ r[i] = l[i]
             /\ ~(i < n) => i + 1 \in 1 .. m /\ r[i] = l[i + 1]
    <2>1. CASE i < n
        <3>1. i \in 1 .. (n - 1) /\ i <= n - 1 /\ i \in 1 .. m
              BY <1>2, <2>1
        <3> QED
            BY <1>4, <1>8, <2>1, <3>1
    <2>2. CASE ~(i < n)
        <3>1. i - (n - 1) \in 1 .. (m - n) /\ ~(i <= n - 1) /\ n + (i - (n - 1)) = i + 1
              BY <1>2, <2>2
        <3>2. r[i] = b[i - (n - 1)]
              BY <1>8, <3>1
        <3>3. b[i - (n - 1)] = l[n + (i - (n - 1))]
              BY <1>5, <3>1
        <3>4. i + 1 \in 1 .. m
              OBVIOUS
        <3> QED
            BY <2>2, <3>1, <3>2, <3>3, <3>4
    <2> QED
        BY <2>1, <2>2
<1>10. Elems(r) \subseteq Elems(l)
    <2> SUFFICES ASSUME NEW x \in Elems(r) PROVE x \in Elems(l)
        OBVIOUS
    <2>1. PICK i \in 1 .. (m - 1) : x = r[i]
          BY <1>7 DEF Elems
    <2>2. PICK k \in 1 .. m : r[i] = l[k]
          BY <1>9
    <2> QED
        BY <1>1, <2>1, <2>2 DEF Elems
<1>11. ASSUME NEW x \in Elems(l), x \notin Elems(r) PROVE x = l[n]
    <2>1. PICK k \in 1 .. m : l[k] = x
          BY <1>1 DEF Elems
    <2>2. CASE k < n
        <3>1. k \in 1 .. (m - 1)
              BY <1>2, <2>2
        <3> QED
            BY <1>7, <1>9, <1>11, <2>1, <2>2, <3>1 DEF Elems
    <2>3. CASE k > n
        <3>1. k - 1 \in 1 .. (m - 1) /\ ~(k - 1 < n) /\ (k - 1) + 1 = k
              BY <1>2, <2>3
        <3>2. r[k - 1] = x
              BY <1>9, <2>1, <3>1
        <3> QED
            BY <1>7, <1>11, <3>1, <3>2 DEF Elems
    <2>4. CASE k = n
          BY <2>1, <2>4
    <2> QED
        BY <1>2, <2>2, <2>3, <2>4
\* Where the elements come from, in the same order.
<1>12. \A i, j \in 1 .. (m - 1) : i < j =>
          \E p, q \in 1 .. m : p < q /\ r[i] = l[p] /\ r[j] = l[q]
    <2> SUFFICES ASSUME NEW i \in 1 .. (m - 1), NEW j \in 1 .. (m - 1), i < j
                 PROVE  \E p, q \in 1 .. m : p < q /\ r[i] = l[p] /\ r[j] = l[q]
        OBVIOUS
    <2>1. CASE j < n
        <3>1. i < n
              BY <1>2, <2>1
        <3> QED
            BY <1>9, <2>1, <3>1
    <2>2. CASE i < n /\ ~(j < n)
        <3>1. i < j + 1
              OBVIOUS
        <3> QED
            BY <1>9, <2>2, <3>1
    <2>3. CASE ~(i < n)
        <3>1. i + 1 < j + 1 /\ ~(j < n)
              BY <1>2, <2>3
        <3> QED
            BY <1>9, <2>3, <3>1
    <2> QED
        BY <2>1, <2>2, <2>3
<1>13. Rising(l) => Rising(r)
    <2> SUFFICES ASSUME Rising(l), NEW i \in 1 .. (m - 1), NEW j \in 1 .. (m - 1), i < j
                 PROVE  Age(r[i]) < Age(r[j])
        BY <1>7 DEF Rising
    <2>1. PICK p \in 1 .. m, q \in 1 .. m : p < q /\ r[i] = l[p] /\ r[j] = l[q]
          BY <1>12
    <2>2. Age(l[p]) < Age(l[q])
          BY <1>1, <2>1 DEF Rising
    <2> QED
        BY <2>1, <2>2
<1>14. Falling(l) => Falling(r)
    <2> SUFFICES ASSUME Falling(l), NEW i \in 1 .. (m - 1), NEW j \in 1 .. (m - 1), i < j
                 PROVE  Age(r[j]) < Age(r[i])
        BY <1>7 DEF Falling
    <2>1. PICK p \in 1 .. m, q \in 1 .. m : p < q /\ r[i] = l[p] /\ r[j] = l[q]
          BY <1>12
    <2>2. Age(l[q]) < Age(l[p])
          BY <1>1, <2>1 DEF Falling
    <2> QED
        BY <2>1, <2>2
<1> QED
    BY <1>1, <1>7, <1>9, <1>10, <1>11, <1>13, <1>14

\* find_if and erase: DestroySystemService.
LEMMA WithoutFacts ==
    ASSUME NEW l \in Seq(Services), NEW s, NEW r, r = Without(l, s)
    PROVE  /\ r \in Seq(Services)
           /\ Elems(r) \subseteq Elems(l)
           /\ Rising(l) => Rising(r)
           /\ Falling(l) => Falling(r)
<1> DEFINE at == {i \in DOMAIN l : l[i] = s}
<1>1. CASE at = {}
      BY <1>1 DEF Without
<1>2. CASE at # {}
    <2> DEFINE R == OpToRel(<, Nat)
    <2>1. at \subseteq Nat
          OBVIOUS
    <2>2. IsWellFoundedOn(R, Nat)
          BY NatLessThanWellFounded
    <2> HIDE DEF R
    <2>3. PICK k \in at : \A j \in at : ~(<<j, k>> \in R)
        <3> HIDE DEF at
        <3> QED
            BY <1>2, <2>1, <2>2, WFMin
    <2>4. \A j \in at : k <= j
        <3>1. \A j \in at : ~(j < k)
              BY <2>1, <2>3 DEF R, OpToRel
        <3> SUFFICES ASSUME NEW j \in at PROVE k <= j
            OBVIOUS
        <3>2. k \in Nat /\ j \in Nat /\ ~(j < k)
              BY <2>1, <3>1
        <3> HIDE DEF at
        <3> QED
            BY <3>2
    <2> HIDE DEF at
    <2>5. PICK n \in at : n = CHOOSE i \in at : \A j \in at : i <= j
          BY <2>3, <2>4
    <2>6. r = RemoveAt(l, n)
          BY <1>2, <2>5 DEF Without, at
    <2>7. n \in DOMAIN l
          BY <2>5 DEF at
    <2> QED
        BY <2>6, <2>7, EraseFacts
<1> QED
    BY <1>1, <1>2

-----------------------------------------------------------------------------
(***************************************************************************)
(* The steps, by what they do to the list, the timer and the pass.         *)
(***************************************************************************)

TimerType == [object : Nat, active : BOOLEAN, armed : BOOLEAN]

\* At the start the list is in the order of creation.
LEMMA InitHolds == Init => ManagerInv
<1> SUFFICES ASSUME Init PROVE ManagerInv
    OBVIOUS
<1>1. Rising(Created)
    <2>1. \A i, j \in DOMAIN Created : i < j => Age(Created[i]) < Age(Created[j])
          BY AgeOfCreated
    <2> QED
        BY <2>1 DEF Rising
<1>2. List
      BY <1>1, AgeOfCreated DEF List, Init
<1>3. Waiting
      BY DEF Waiting, Init
<1>4. Passed
      BY DEF Passed, InPass, Init
<1>5. NonWhitelistedGone
      BY DEF NonWhitelistedGone, Init
<1> QED
    BY <1>2, <1>3, <1>4, <1>5 DEF ManagerInv

\* A step outside the manager's thread changes no more than the timer.
LEMMA OutsideKeeps ==
    ASSUME ManagerInv,
           UNCHANGED <<state, pc, servicesList, serviceListReversed, destroy>>,
           timer' \in TimerType, timer'.active => timer.active
    PROVE  ManagerInv'
<1>1. List'
      BY DEF ManagerInv, List
<1>2. Waiting'
      BY DEF ManagerInv, Waiting, TimerType
<1>3. Passed'
      BY DEF ManagerInv, Passed, InPass
<1>4. NonWhitelistedGone'
      BY DEF ManagerInv, NonWhitelistedGone
<1> QED
    BY <1>1, <1>2, <1>3, <1>4 DEF ManagerInv

\* A handler of the manager that starts no pass and leaves the list alone:
\* after Running the state is never Running again.
LEMMA CalmKeeps ==
    ASSUME ManagerInv,
           UNCHANGED <<servicesList, serviceListReversed>>,
           timer' \in TimerType, timer'.active => timer.active,
           pc' \notin {"destroy", "exitwait"},
           state' = state \/ state # "Running"
    PROVE  ManagerInv'
<1>1. List'
      BY DEF ManagerInv, List
<1>2. Waiting'
      BY DEF ManagerInv, Waiting, TimerType
<1>3. Passed'
      BY DEF Passed, InPass
<1>4. NonWhitelistedGone'
      BY DEF ManagerInv, NonWhitelistedGone
<1> QED
    BY <1>1, <1>2, <1>3, <1>4 DEF ManagerInv

\* The list is reversed once, however often the system is asked to close.
LEMMA ReversedList ==
    ASSUME List, ReverseOnce
    PROVE  /\ List'
           /\ serviceListReversed'
           /\ Elems(servicesList') \subseteq Elems(servicesList)
<1>0. servicesList \in Seq(Services) /\ serviceListReversed \in BOOLEAN
      BY DEF List
<1>1. CASE serviceListReversed
    <2>1. servicesList' = servicesList /\ serviceListReversed' = TRUE
          BY <1>1 DEF ReverseOnce
    <2> QED
        BY <1>1, <2>1 DEF List
<1>2. CASE ~serviceListReversed
    <2>1. servicesList' = Reverse(servicesList) /\ serviceListReversed' = TRUE
          BY <1>2 DEF ReverseOnce
    <2>2. PICK r : r = Reverse(servicesList)
          OBVIOUS
    <2>3. Rising(servicesList)
          BY <1>2 DEF List
    <2>4. r \in Seq(Services) /\ Elems(r) \subseteq Elems(servicesList) /\ Falling(r)
          BY <1>0, <2>2, <2>3, ReverseFacts
    <2>5. servicesList' = r
          BY <2>1, <2>2
    <2>6. List'
          BY <2>1, <2>4, <2>5 DEF List
    <2> QED
        BY <2>1, <2>4, <2>5, <2>6
<1> QED
    BY <1>0, <1>1, <1>2

\* CloseSystemHandler: the list is reversed before the timer is started.
LEMMA CloseSystemKeeps ==
    ASSUME ManagerInv, NEW reason, CloseSystemHandler(reason)
    PROVE  ManagerInv'
<1>1. /\ List' /\ serviceListReversed'
      /\ Elems(servicesList') \subseteq Elems(servicesList)
      BY ReversedList DEF ManagerInv, CloseSystemHandler
<1>2. timer' \in TimerType
      BY DEF CloseSystemHandler, ManagerInv, Waiting, TimerType
<1>3. Waiting'
      BY <1>1, <1>2 DEF Waiting, TimerType
<1>4. pc' = "loop" /\ state' = state
      BY DEF CloseSystemHandler, Return
<1>5. Passed'
      BY <1>4 DEF Passed, InPass
<1>6. NonWhitelistedGone'
      BY <1>1, <1>4 DEF ManagerInv, NonWhitelistedGone
<1> QED
    BY <1>1, <1>3, <1>5, <1>6 DEF ManagerInv

\* CloseServices runs when a started timer is stopped or expires, so on a
\* list that was reversed; its pass has everything before it.
LEMMA CloseServicesKeeps ==
    ASSUME ManagerInv, timer.active, CloseServices,
           timer' = [timer EXCEPT !.active = FALSE, !.armed = FALSE],
           UNCHANGED <<state, servicesList, serviceListReversed>>
    PROVE  ManagerInv'
<1>1. List'
      BY DEF ManagerInv, List
<1>2. Waiting'
      BY DEF ManagerInv, Waiting
<1>3. serviceListReversed' /\ servicesList \in Seq(Services)
      BY DEF ManagerInv, Waiting, List
<1>4. /\ destroy' = [whitelist |-> CloseWhiteList, pos |-> 1,
                     next |-> NextState(closeReason)]
      /\ pc' = "destroy"
      BY DEF CloseServices
<1>5. PICK nx : nx = NextState(closeReason)
      OBVIOUS
<1>6. /\ destroy' = [whitelist |-> CloseWhiteList, pos |-> 1, next |-> nx]
      /\ destroy'.whitelist = CloseWhiteList /\ destroy'.pos = 1 /\ destroy'.next = nx
      BY <1>4, <1>5
<1>7. \A i \in DOMAIN servicesList : ~(i < 1)
      BY <1>3
<1>8. Passed'
      BY <1>3, <1>4, <1>6, <1>7 DEF Passed, InPass
<1>9. NonWhitelistedGone'
      BY DEF ManagerInv, NonWhitelistedGone
<1> QED
    BY <1>1, <1>2, <1>8, <1>9 DEF ManagerInv

\* RestoreSystemHandler: its pass leads back to the state it began in.
LEMMA RestoreKeeps ==
    ASSUME ManagerInv, HandleRestore
    PROVE  ManagerInv'
<1>1. /\ ReverseOnce
      /\ destroy' = [whitelist |-> RestoreWhiteList, pos |-> 1, next |-> state]
      /\ pc' = "destroy"
      /\ state' = state /\ timer' = timer
      BY DEF HandleRestore
<1>2. /\ List' /\ serviceListReversed'
      /\ Elems(servicesList') \subseteq Elems(servicesList)
      BY <1>1, ReversedList DEF ManagerInv
<1>3. Waiting'
      BY <1>1, <1>2 DEF ManagerInv, Waiting
<1>4. NonWhitelistedGone'
      BY <1>1, <1>2 DEF ManagerInv, NonWhitelistedGone
<1>5. PICK l : l = servicesList'
      OBVIOUS
<1>6. l \in Seq(Services)
      BY <1>2, <1>5 DEF List
<1>7. \A i \in DOMAIN l : ~(i < 1)
      BY <1>6
<1>8. destroy'.whitelist = RestoreWhiteList /\ destroy'.pos = 1 /\ destroy'.next = state
      BY <1>1
<1>9. state # "Running" => Elems(l) \subseteq CloseWhiteList
      BY <1>1, <1>4, <1>5 DEF NonWhitelistedGone
<1>10. Passed'
      BY <1>1, <1>2, <1>5, <1>7, <1>8, <1>9 DEF Passed, InPass
<1> QED
    BY <1>2, <1>3, <1>4, <1>10 DEF ManagerInv

\* DestroySkip goes past a service of the whitelist.
LEMMA SkipKeeps ==
    ASSUME ManagerInv, DestroySkip
    PROVE  ManagerInv'
<1>1. /\ pc = "destroy" /\ pc' = pc /\ servicesList' = servicesList /\ state' = state
      /\ serviceListReversed' = serviceListReversed /\ timer' = timer
      /\ servicesList[destroy.pos] \in destroy.whitelist
      /\ destroy' = [destroy EXCEPT !.pos = @ + 1]
      BY DEF DestroySkip, rest, Victim
<1>2. PICK w, p, x : destroy = [whitelist |-> w, pos |-> p, next |-> x] /\ p \in Nat \ {0}
      BY <1>1 DEF ManagerInv, Passed, InPass
<1>3. destroy' = [whitelist |-> w, pos |-> p + 1, next |-> x]
      BY <1>1, <1>2
<1>4. destroy.whitelist = w /\ destroy.pos = p /\ destroy.next = x
      BY <1>2
<1>5. destroy'.whitelist = w /\ destroy'.pos = p + 1 /\ destroy'.next = x
      BY <1>3
<1>6. servicesList \in Seq(Services)
      BY DEF ManagerInv, List
<1>7. /\ \A i \in DOMAIN servicesList : i < p => servicesList[i] \in w
      /\ x # "Running" => w = CloseWhiteList \/ Elems(servicesList) \subseteq CloseWhiteList
      /\ serviceListReversed
      BY <1>1, <1>4 DEF ManagerInv, Passed, InPass
<1>8. ASSUME NEW i \in DOMAIN servicesList, i < p + 1 PROVE servicesList[i] \in w
    <2>1. i < p \/ i = p
          BY <1>2, <1>6, <1>8
    <2> QED
        BY <1>1, <1>4, <1>7, <2>1
<1>9. p + 1 \in Nat \ {0}
      BY <1>2
<1>10. Passed'
      BY <1>1, <1>3, <1>5, <1>7, <1>8, <1>9 DEF Passed, InPass
<1>11. List' /\ Waiting' /\ NonWhitelistedGone'
      BY <1>1 DEF ManagerInv, List, Waiting, NonWhitelistedGone
<1> QED
    BY <1>10, <1>11 DEF ManagerInv

\* DestroyRequest waits at a position of the list.
LEMMA RequestKeeps ==
    ASSUME ManagerInv, DestroyRequest
    PROVE  ManagerInv'
<1>1. /\ pc = "destroy" /\ pc' = "exitwait" /\ servicesList' = servicesList /\ state' = state
      /\ serviceListReversed' = serviceListReversed /\ timer' = timer
      /\ destroy.pos <= Len(servicesList) /\ destroy' = destroy
      BY DEF DestroyRequest, rest
<1>2. Passed'
      BY <1>1 DEF ManagerInv, Passed, InPass
<1>3. List' /\ Waiting' /\ NonWhitelistedGone'
      BY <1>1 DEF ManagerInv, List, Waiting, NonWhitelistedGone
<1> QED
    BY <1>2, <1>3 DEF ManagerInv

\* The position the pass waits at is one of the list.
LEMMA WaitsInList ==
    ASSUME ManagerInv, pc = "exitwait"
    PROVE  servicesList \in Seq(Services) /\ destroy.pos \in DOMAIN servicesList
<1>1. PICK p \in Nat \ {0} : p = destroy.pos /\ p <= Len(servicesList)
      BY DEF ManagerInv, Passed, InPass
<1>2. servicesList \in Seq(Services)
      BY DEF ManagerInv, List
<1>3. p \in DOMAIN servicesList
      BY <1>1, <1>2
<1> QED
    BY <1>1, <1>2, <1>3

\* The erased element makes the next one come to the position of the pass:
\* none is left out.
LEMMA EraseKeeps ==
    ASSUME ManagerInv, pc = "exitwait", Erase
    PROVE  ManagerInv'
<1>1. /\ pc' = "destroy" /\ servicesList' = RemoveAt(servicesList, destroy.pos)
      /\ state' = state /\ serviceListReversed' = serviceListReversed /\ timer' = timer
      /\ destroy' = destroy
      BY DEF Erase, rest
<1>2. servicesList \in Seq(Services) /\ destroy.pos \in DOMAIN servicesList
      BY WaitsInList
<1>3. PICK r, p : r = RemoveAt(servicesList, p) /\ p = destroy.pos
      OBVIOUS
<1>4. servicesList' = r
      BY <1>1, <1>3
<1>5. /\ r \in Seq(Services)
      /\ \A i \in DOMAIN r : i < p => i \in DOMAIN servicesList /\ r[i] = servicesList[i]
      BY <1>2, <1>3, EraseFacts
<1>6. Elems(r) \subseteq Elems(servicesList)
      BY <1>2, <1>3, EraseFacts
<1>7. /\ Rising(servicesList) => Rising(r)
      /\ Falling(servicesList) => Falling(r)
      BY <1>2, <1>3, EraseFacts
<1>8. List'
      BY <1>1, <1>4, <1>5, <1>7 DEF ManagerInv, List
<1>9. Waiting'
      BY <1>1 DEF ManagerInv, Waiting
<1>10. /\ serviceListReversed
       /\ destroy = [whitelist |-> destroy.whitelist, pos |-> destroy.pos,
                     next |-> destroy.next]
       /\ p \in Nat \ {0}
       /\ \A i \in DOMAIN servicesList : i < p => servicesList[i] \in destroy.whitelist
       /\ destroy.next # "Running" =>
             destroy.whitelist = CloseWhiteList \/ Elems(servicesList) \subseteq CloseWhiteList
      BY <1>3 DEF ManagerInv, Passed, InPass
<1>11. \A i \in DOMAIN r : i < p => r[i] \in destroy.whitelist
      BY <1>5, <1>10
<1>12. destroy.next # "Running" =>
             destroy.whitelist = CloseWhiteList \/ Elems(r) \subseteq CloseWhiteList
      BY <1>6, <1>10
<1>13. Passed'
      BY <1>1, <1>3, <1>4, <1>10, <1>11, <1>12 DEF Passed, InPass
<1>14. NonWhitelistedGone'
      BY <1>1, <1>4, <1>6 DEF ManagerInv, NonWhitelistedGone
<1> QED
    BY <1>8, <1>9, <1>13, <1>14 DEF ManagerInv

\* A pass at its end has seen the whole list.
LEMMA DoneKeeps ==
    ASSUME ManagerInv, DestroyDone
    PROVE  ManagerInv'
<1>1. /\ pc = "destroy" /\ pc' = "loop" /\ servicesList' = servicesList
      /\ state' = destroy.next /\ destroy.pos > Len(servicesList)
      /\ serviceListReversed' = serviceListReversed /\ timer' = timer
      BY DEF DestroyDone, rest
<1>2. List' /\ Waiting'
      BY <1>1 DEF ManagerInv, List, Waiting
<1>3. Passed'
      BY <1>1 DEF Passed, InPass
<1>4. PICK p \in Nat : p = destroy.pos
      BY <1>1 DEF ManagerInv, Passed, InPass
<1>5. servicesList \in Seq(Services)
      BY DEF ManagerInv, List
<1>6. \A i \in DOMAIN servicesList : i < p
      BY <1>1, <1>4, <1>5
<1>7. /\ \A i \in DOMAIN servicesList : servicesList[i] \in destroy.whitelist
      /\ destroy.next # "Running" =>
            destroy.whitelist = CloseWhiteList \/ Elems(servicesList) \subseteq CloseWhiteList
      BY <1>1, <1>4, <1>6 DEF ManagerInv, Passed, InPass
<1>8. Elems(servicesList) \subseteq destroy.whitelist
      BY <1>7 DEF Elems
<1>9. NonWhitelistedGone'
      BY <1>1, <1>7, <1>8 DEF NonWhitelistedGone
<1> QED
    BY <1>2, <1>3, <1>9 DEF ManagerInv

\* DestroySystemService takes the event manager out of a closed system.
LEMMA EvtMgrKeeps ==
    ASSUME ManagerInv, EvtMgrResponse
    PROVE  ManagerInv'
<1>1. /\ pc' = "loop" /\ servicesList' = Without(servicesList, EvtMgr) /\ state' = state
      /\ serviceListReversed' = serviceListReversed /\ timer' = timer
      BY DEF EvtMgrResponse, rest
<1>2. servicesList \in Seq(Services)
      BY DEF ManagerInv, List
<1>3. PICK r : r = Without(servicesList, EvtMgr)
      OBVIOUS
<1>4. /\ r \in Seq(Services) /\ Elems(r) \subseteq Elems(servicesList)
      /\ Rising(servicesList) => Rising(r)
      /\ Falling(servicesList) => Falling(r)
      BY <1>2, <1>3, WithoutFacts
<1>5. servicesList' = r
      BY <1>1, <1>3
<1>6. List'
      BY <1>1, <1>4, <1>5 DEF ManagerInv, List
<1>7. Waiting' /\ Passed'
      BY <1>1 DEF ManagerInv, Waiting, Passed, InPass
<1>8. NonWhitelistedGone'
      BY <1>1, <1>4, <1>5 DEF ManagerInv, NonWhitelistedGone
<1> QED
    BY <1>6, <1>7, <1>8 DEF ManagerInv

\* The handlers the manager runs for the messages of its mailbox.
LEMMA HandlersKeep ==
    ASSUME ManagerInv,
           \/ HandleIgnored \/ HandleClose \/ HandleLowBattery \/ HandleLowBatteryTimer
           \/ HandleReadyToClose \/ HandleCloseTimer \/ HandleRestore
           \/ HandleBatteryStatus \/ HandleKbd
    PROVE  ManagerInv'
<1>0. timer \in TimerType
      BY DEF ManagerInv, Waiting, TimerType
<1>1. CASE HandleIgnored
    <2>1. UNCHANGED <<state, servicesList, serviceListReversed, timer>> /\ pc' = "loop"
          BY <1>1 DEF HandleIgnored, Return, manager
    <2> QED
        BY <1>0, <2>1, CalmKeeps
<1>2. CASE HandleClose
    <2>1. PICK m : CloseSystemHandler(m.reason)
          BY <1>2 DEF HandleClose
    <2> QED
        BY <2>1, CloseSystemKeeps
<1>3. CASE HandleLowBattery
    <2>1. UNCHANGED <<state, servicesList, serviceListReversed, timer>> /\ pc' = "loop"
          BY <1>3 DEF HandleLowBattery, Return
    <2> QED
        BY <1>0, <2>1, CalmKeeps
<1>4. CASE HandleLowBatteryTimer
    <2>1. CASE CloseSystemHandler("LowBattery")
          BY <2>1, CloseSystemKeeps
    <2>2. CASE Return /\ UNCHANGED manager
        <3>1. UNCHANGED <<state, servicesList, serviceListReversed, timer>> /\ pc' = "loop"
              BY <2>2 DEF Return, manager
        <3> QED
            BY <1>0, <3>1, CalmKeeps
    <2> QED
        BY <1>4, <2>1, <2>2 DEF HandleLowBatteryTimer
<1>5. CASE HandleReadyToClose
    <2>1. PICK m : ServiceReadyToCloseHandler(m.sender)
          BY <1>5 DEF HandleReadyToClose
    <2>2. PICK s : s = m.sender
          OBVIOUS
    <2>3. /\ Ignored \/ NotOnTheList(s) \/ LastReady(s) \/ NextAsked(s)
          /\ UNCHANGED <<state, servicesList, serviceListReversed>>
          BY <2>1, <2>2 DEF ServiceReadyToCloseHandler
    <2>4. CASE Ignored
        <3>1. timer' = timer /\ pc' = "loop"
              BY <2>4 DEF Ignored, Return
        <3> QED
            BY <1>0, <2>3, <3>1, CalmKeeps
    <2>5. CASE NotOnTheList(s)
        <3>1. timer' = [timer EXCEPT !.active = FALSE, !.armed = FALSE] /\ pc' = "loop"
              BY <2>5 DEF NotOnTheList, Return
        <3>2. timer' \in TimerType /\ ~timer'.active
              BY <1>0, <3>1 DEF TimerType
        <3> QED
            BY <2>3, <3>1, <3>2, CalmKeeps
    <2>6. CASE LastReady(s)
        <3>1. timer.active /\ CloseServices
              /\ timer' = [timer EXCEPT !.active = FALSE, !.armed = FALSE]
              BY <2>6 DEF LastReady
        <3> QED
            BY <2>3, <3>1, CloseServicesKeeps
    <2>7. CASE NextAsked(s)
        <3>1. /\ timer.active /\ pc' = "loop"
              /\ timer' = [timer EXCEPT !.active = TRUE, !.armed = TRUE]
              BY <2>7 DEF NextAsked, Return
        <3>2. timer' \in TimerType
              BY <1>0, <3>1 DEF TimerType
        <3> QED
            BY <2>3, <3>1, <3>2, CalmKeeps
    <2> QED
        BY <2>3, <2>4, <2>5, <2>6, <2>7
<1>6. CASE HandleCloseTimer
    <2>1. CASE /\ timer.active /\ CloseServices
               /\ timer' = [timer EXCEPT !.active = FALSE, !.armed = FALSE]
               /\ UNCHANGED <<state, servicesList, serviceListReversed>>
          BY <2>1, CloseServicesKeeps
    <2>2. CASE Return /\ UNCHANGED manager
        <3>1. UNCHANGED <<state, servicesList, serviceListReversed, timer>> /\ pc' = "loop"
              BY <2>2 DEF Return, manager
        <3> QED
            BY <1>0, <3>1, CalmKeeps
    <2> QED
        BY <1>6, <2>1, <2>2 DEF HandleCloseTimer
<1>7. CASE HandleRestore
      BY <1>7, RestoreKeeps
<1>8. CASE HandleBatteryStatus
    <2>1. /\ UNCHANGED <<servicesList, serviceListReversed, timer>> /\ pc' = "loop"
          /\ state' = state \/ state # "Running"
          BY <1>8 DEF HandleBatteryStatus, Return
    <2> QED
        BY <1>0, <2>1, CalmKeeps
<1>9. CASE HandleKbd
    <2>1. /\ UNCHANGED <<servicesList, serviceListReversed, timer>> /\ pc' = "loop"
          /\ state' = state \/ state # "Running"
          BY <1>9 DEF HandleKbd, Return
    <2> QED
        BY <1>0, <2>1, CalmKeeps
<1> QED
    BY <1>1, <1>2, <1>3, <1>4, <1>5, <1>6, <1>7, <1>8, <1>9

\* The steps of handleShutdown and PowerOff, which start no pass.
LEMMA ShutdownKeeps ==
    ASSUME ManagerInv, HandleShutdown \/ EvtMgrTimeout \/ PowerOff
    PROVE  ManagerInv'
<1>0. timer \in TimerType
      BY DEF ManagerInv, Waiting, TimerType
<1>1. UNCHANGED <<servicesList, serviceListReversed, timer>>
      BY DEF HandleShutdown, EvtMgrTimeout, PowerOff, rest
<1>2. pc' \notin {"destroy", "exitwait"}
      BY DEF HandleShutdown, EvtMgrTimeout, PowerOff
<1>3. state' = state \/ state # "Running"
      BY DEF HandleShutdown, EvtMgrTimeout, PowerOff
<1> QED
    BY <1>0, <1>1, <1>2, <1>3, CalmKeeps

\* Every step of the manager's thread.
LEMMA ManagerKeeps ==
    ASSUME ManagerInv, ManagerStep
    PROVE  ManagerInv'
<1>1. CASE \/ HandleIgnored \/ HandleClose \/ HandleLowBattery \/ HandleLowBatteryTimer
           \/ HandleReadyToClose \/ HandleCloseTimer \/ HandleRestore
           \/ HandleBatteryStatus \/ HandleKbd
      BY <1>1, HandlersKeep
<1>2. CASE DestroySkip
      BY <1>2, SkipKeeps
<1>3. CASE DestroyRequest
      BY <1>3, RequestKeeps
<1>4. CASE ExitResponse \/ ExitTimeout
    <2>1. pc = "exitwait" /\ Erase
          BY <1>4 DEF ExitResponse, ExitTimeout
    <2> QED
        BY <2>1, EraseKeeps
<1>5. CASE DestroyDone
      BY <1>5, DoneKeeps
<1>6. CASE EvtMgrResponse
      BY <1>6, EvtMgrKeeps
<1>7. CASE HandleShutdown \/ EvtMgrTimeout \/ PowerOff
      BY <1>7, ShutdownKeeps
<1> QED
    BY <1>1, <1>2, <1>3, <1>4, <1>5, <1>6, <1>7 DEF ManagerStep

\* What the services, the timers and the user do.
LEMMA EnvironmentKeeps ==
    ASSUME ManagerInv, Next, ~ManagerStep
    PROVE  ManagerInv'
<1>0. timer \in TimerType
      BY DEF ManagerInv, Waiting, TimerType
<1>1. CASE CloseTimerExpires
    <2>1. /\ UNCHANGED <<state, pc, servicesList, serviceListReversed, destroy>>
          /\ timer' = [timer EXCEPT !.armed = FALSE]
          BY <1>1 DEF CloseTimerExpires
    <2>2. timer' \in TimerType /\ timer'.active = timer.active
          BY <1>0, <2>1 DEF TimerType
    <2> QED
        BY <2>1, <2>2, OutsideKeeps
<1>2. CASE pc' = pc /\ UNCHANGED manager
    <2>1. UNCHANGED <<state, pc, servicesList, serviceListReversed, destroy, timer>>
          BY <1>2 DEF manager
    <2> QED
        BY <1>0, <2>1, OutsideKeeps
<1>3. CASE LowBatteryTimerExpires \/ ForwardBatteryStatus \/ ReportLowBattery
           \/ ChargerChanges \/ PressKey
    <2>1. pc' = pc /\ UNCHANGED manager
          BY <1>3 DEF LowBatteryTimerExpires, ForwardBatteryStatus, ReportLowBattery,
                      ChargerChanges, PressKey
    <2> QED
        BY <1>2, <2>1
<1>4. ASSUME NEW s \in Services, ServiceStep(s) PROVE ManagerInv'
    <2>1. pc' = pc /\ UNCHANGED manager
          BY <1>4 DEF ServiceStep, ServiceProcessCloseReason, ServiceExit, ServiceCloseService
    <2> QED
        BY <1>2, <2>1
<1>5. ASSUME NEW s \in Requesters,
             RequestRestore(s) \/ \E reason \in Reasons : RequestClose(s, reason)
      PROVE  ManagerInv'
    <2>1. pc' = pc /\ UNCHANGED manager
          BY <1>5 DEF RequestRestore, RequestClose
    <2> QED
        BY <1>2, <2>1
<1> QED
    BY <1>1, <1>3, <1>4, <1>5 DEF Next

\* ManagerInv is an invariant of the specification.
THEOREM ManagerInvariant == Spec => []ManagerInv
<1>1. ManagerInv /\ [Next]_vars => ManagerInv'
    <2> SUFFICES ASSUME ManagerInv, [Next]_vars PROVE ManagerInv'
        OBVIOUS
    <2>1. CASE Next
        <3>1. CASE ManagerStep
              BY <3>1, ManagerKeeps
        <3>2. CASE ~ManagerStep
              BY <2>1, <3>2, EnvironmentKeeps
        <3> QED
            BY <3>1, <3>2
    <2>2. CASE UNCHANGED vars
        <3>1. /\ UNCHANGED <<state, pc, servicesList, serviceListReversed, destroy, timer>>
              /\ timer \in TimerType
              BY <2>2 DEF vars, ManagerInv, Waiting, TimerType
        <3> QED
            BY <3>1, OutsideKeeps
    <2> QED
        BY <2>1, <2>2
<1> QED
    BY <1>1, InitHolds, PTL DEF Spec

\* DestroyServices reaches every service: once the manager has left Running
\* only services of the whitelist for closing are left.
THEOREM AllDestroyed == Spec => []NonWhitelistedGone
<1>1. ManagerInv => NonWhitelistedGone
      BY DEF ManagerInv
<1> QED
    BY <1>1, ManagerInvariant, PTL

\* The service that is erased at position pos of a pass has only services of
\* the whitelist before it, and those created after it are before it.
LEMMA NewerPassed ==
    ASSUME ManagerInv, Next, pc = "exitwait",
           NEW a \in Elems(servicesList) \ Elems(servicesList'),
           NEW b \in Elems(servicesList), Age(b) > Age(a)
    PROVE  b \in destroy.whitelist
<1>1. servicesList \in Seq(Services) /\ destroy.pos \in DOMAIN servicesList
      BY WaitsInList
<1>2. servicesList' = RemoveAt(servicesList, destroy.pos)
    <2>1. servicesList' # servicesList
          OBVIOUS
    <2>2. ExitResponse \/ ExitTimeout
        <3>1. CASE ManagerStep
              BY <2>1, <3>1 DEF ManagerStep, HandleIgnored, HandleClose, HandleLowBattery,
                 HandleLowBatteryTimer, HandleReadyToClose, HandleCloseTimer, HandleRestore,
                 HandleBatteryStatus, HandleKbd, Pops, DestroySkip, DestroyRequest, DestroyDone,
                 HandleShutdown, EvtMgrResponse, EvtMgrTimeout, PowerOff
        <3>2. CASE ~ManagerStep
              BY <2>1, <3>2 DEF Next, CloseTimerExpires, LowBatteryTimerExpires,
                 ForwardBatteryStatus, ReportLowBattery, ChargerChanges, PressKey, ServiceStep,
                 ServiceProcessCloseReason, ServiceExit, ServiceCloseService, RequestRestore,
                 RequestClose, manager
        <3> QED
            BY <3>1, <3>2
    <2> QED
        BY <2>2 DEF ExitResponse, ExitTimeout, Erase
<1>3. PICK r, p : r = RemoveAt(servicesList, p) /\ p = destroy.pos
      OBVIOUS
<1>4. servicesList' = r /\ p \in DOMAIN servicesList
      BY <1>1, <1>2, <1>3
<1>5. a = servicesList[p]
    <2>1. \A x \in Elems(servicesList) : x \notin Elems(r) => x = servicesList[p]
          BY <1>1, <1>3, <1>4, EraseFacts
    <2> QED
        BY <1>4, <2>1
<1>6. PICK i \in DOMAIN servicesList : b = servicesList[i]
      BY DEF Elems
<1>7. Falling(servicesList)
      BY DEF ManagerInv, List, Passed, InPass
<1>8. i < p
    <2>1. servicesList[i] \in Services /\ servicesList[p] \in Services
          BY <1>1, <1>4, <1>6
    <2>2. Age(a) \in Nat /\ Age(b) \in Nat
          BY <1>5, <1>6, <2>1, AgeType
    <2>3. i # p
          BY <1>5, <1>6, <2>2
    <2>4. ~(p < i)
          BY <1>4, <1>5, <1>6, <1>7, <2>2 DEF Falling
    <2>5. i \in Nat /\ p \in Nat
          BY <1>1, <1>4
    <2> QED
        BY <2>3, <2>4, <2>5
<1> QED
    BY <1>3, <1>6, <1>8 DEF ManagerInv, Passed, InPass

\* "We are going to remove services in reversed order of creation": what was
\* created after a destroyed service is gone or on the whitelist of the pass.
THEOREM OrderKept == Spec => DestroyOrder
<1>1. ASSUME ManagerInv, Next
      PROVE  \A a \in Elems(servicesList) \ Elems(servicesList') :
                pc = "exitwait" =>
                   \A b \in Elems(servicesList) : Age(b) > Age(a) => b \in destroy.whitelist
      BY <1>1, NewerPassed
<1>2. ManagerInv /\ [Next]_vars =>
         [ \A a \in Elems(servicesList) \ Elems(servicesList') :
             pc = "exitwait" =>
                \A b \in Elems(servicesList) : Age(b) > Age(a) => b \in destroy.whitelist ]_vars
      BY <1>1
<1> QED
    BY <1>2, ManagerInvariant, PTL DEF Spec, DestroyOrder
=============================================================================
