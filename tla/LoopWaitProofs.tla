--------------------------- MODULE LoopWaitProofs ---------------------------
(***************************************************************************)
(* What LoopWait promises about waiting and about its pass over the        *)
(* sockets, for every number of sockets, any clock and any timeout.  The   *)
(* first part is about PollFds alone: what the operations on the array of  *)
(* sockets and the steps of the loop over it do to the set of the          *)
(* registered sockets and to those that the loop has still to look at.     *)
(***************************************************************************)
EXTENDS LoopWait, TLAPS

\* No socket is in the array twice.
NoTwice == \A i, j \in 1..Len(fds) : fds[i] = fds[j] => i = j

\* The loop's index does not pass the end of the array, and callbacks are called
\* from the loop alone.
IndexInv ==
  /\ passing \in BOOLEAN
  /\ called # None => passing
  /\ passing => index <= Len(fds)

ArrayInv == PollTypeOK /\ NoTwice /\ IndexInv

-----------------------------------------------------------------------------
(* The array.                                                              *)

\* A socket of the array is at one index.
LEMMA PlaceOf ==
  ASSUME fds \in Seq(Fds), NoTwice, NEW i \in 1..Len(fds)
  PROVE  (CHOOSE j \in DOMAIN fds : fds[j] = fds[i]) = i
  BY DEF NoTwice

\* Removal from the array leaves an array of sockets.
LEMMA WithoutType ==
  ASSUME fds \in Seq(Fds), NEW f PROVE Without(f) \in Seq(Fds)
  <1>1. CASE fds = <<>>
    BY <1>1 DEF Without
  <1>2. CASE fds # <<>>
    <2> DEFINE k == CHOOSE j \in DOMAIN fds : fds[j] = f
               moved == [fds EXCEPT ![k] = fds[Len(fds)]]
    <2>1. fds[Len(fds)] \in Fds
      BY <1>2
    <2>2. moved \in Seq(Fds) /\ Len(moved) = Len(fds)
      <3>1. fds \in [1..Len(fds) -> Fds] /\ Len(fds) \in Nat
        OBVIOUS
      <3>2. moved \in [1..Len(fds) -> Fds]
        BY <2>1, <3>1
      <3>3. QED
        BY <3>1, <3>2
    <2> HIDE DEF moved
    <2>3. SubSeq(moved, 1, Len(fds) - 1) \in Seq(Fds)
      BY <1>2, <2>2
    <2>4. QED
      BY <2>3 DEF Without, moved
  <1>3. QED
    BY <1>1, <1>2

\* The sockets of the array are sockets.
LEMMA RegisteredType ==
  ASSUME fds \in Seq(Fds) PROVE RegisteredFds \subseteq Fds
  BY DEF RegisteredFds

\* UA_EventLoopLWIP_deregisterFD, slot by slot: the last socket is in the place
\* of the removed one.
LEMMA WithoutSlots ==
  ASSUME fds \in Seq(Fds), NoTwice, NEW i \in 1..Len(fds)
  PROVE  /\ Len(Without(fds[i])) = Len(fds) - 1
         /\ \A j \in 1..Len(fds) - 1 :
              Without(fds[i])[j] = IF j = i THEN fds[Len(fds)] ELSE fds[j]
  <1> DEFINE moved == [fds EXCEPT ![i] = fds[Len(fds)]]
  <1>1. Without(fds[i]) = SubSeq(moved, 1, Len(fds) - 1)
    BY PlaceOf DEF Without
  <1>2. moved \in Seq(Fds) /\ Len(moved) = Len(fds)
    <2>1. fds \in [1..Len(fds) -> Fds] /\ Len(fds) \in Nat
      OBVIOUS
    <2>2. moved \in [1..Len(fds) -> Fds]
      BY <2>1
    <2>3. QED
      BY <2>1, <2>2
  <1>3. \A j \in 1..Len(fds) : moved[j] = IF j = i THEN fds[Len(fds)] ELSE fds[j]
    OBVIOUS
  <1> HIDE DEF moved
  <1>4. Len(fds) \in Nat \ {0}
    OBVIOUS
  <1>5. /\ Len(SubSeq(moved, 1, Len(fds) - 1)) = Len(fds) - 1
        /\ \A j \in 1..Len(fds) - 1 : SubSeq(moved, 1, Len(fds) - 1)[j] = moved[j]
    BY <1>2, <1>4
  <1>6. QED
    BY <1>1, <1>3, <1>5

\* Removal removes one socket, and leaves no other twice.
LEMMA WithoutRemoves ==
  ASSUME fds \in Seq(Fds), NoTwice, NEW i \in 1..Len(fds), fds' = Without(fds[i])
  PROVE  /\ RegisteredFds' = RegisteredFds \ {fds[i]}
         /\ NoTwice'
  <1> DEFINE n == Len(fds)
  <1>1. n \in Nat \ {0} /\ DOMAIN fds = 1..n /\ i \in 1..n
    OBVIOUS
  <1>2. fds' \in Seq(Fds)
    BY WithoutType
  <1>3. /\ Len(fds') = n - 1 /\ DOMAIN fds' = 1..n - 1
        /\ \A j \in 1..n - 1 : fds'[j] = IF j = i THEN fds[n] ELSE fds[j]
    <2>1. /\ Len(fds') = n - 1
          /\ \A j \in 1..n - 1 : fds'[j] = IF j = i THEN fds[n] ELSE fds[j]
      BY WithoutSlots
    <2>2. DOMAIN fds' = 1..Len(fds')
      BY <1>2
    <2>3. QED
      BY <2>1, <2>2
  <1>4. \A k, j \in 1..n : fds[k] = fds[j] => k = j
    BY DEF NoTwice
  <1> HIDE DEF n
  <1>5. NoTwice'
    <2> SUFFICES ASSUME NEW k \in 1..n - 1, NEW j \in 1..n - 1, fds'[k] = fds'[j]
                 PROVE  k = j
      BY <1>3 DEF NoTwice
    <2>1. k \in 1..n /\ j \in 1..n /\ n \in 1..n /\ k # n /\ j # n
      BY <1>1
    <2>2. QED
      BY <1>3, <1>4, <2>1
  <1>6. ASSUME NEW f \in RegisteredFds' PROVE f \in RegisteredFds \ {fds[i]}
    <2>1. PICK j \in 1..n - 1 : f = fds'[j]
      BY <1>3, <1>6 DEF RegisteredFds
    <2>2. CASE j = i
      <3>1. f = fds[n] /\ n \in 1..n /\ n # i
        BY <1>1, <1>3, <2>1, <2>2
      <3>2. QED
        BY <1>1, <1>4, <3>1 DEF RegisteredFds
    <2>3. CASE j # i
      <3>1. f = fds[j] /\ j \in 1..n
        BY <1>1, <1>3, <2>1, <2>3
      <3>2. QED
        BY <1>1, <1>4, <2>3, <3>1 DEF RegisteredFds
    <2>4. QED
      BY <2>2, <2>3
  <1>7. ASSUME NEW f \in RegisteredFds \ {fds[i]} PROVE f \in RegisteredFds'
    <2>1. PICK k \in 1..n : f = fds[k]
      BY <1>1, <1>7 DEF RegisteredFds
    <2>2. k # i
      BY <1>7, <2>1
    <2>3. CASE k = n
      <3>1. i \in 1..n - 1 /\ fds'[i] = f
        BY <1>1, <1>3, <2>1, <2>2, <2>3
      <3>2. QED
        BY <1>3, <3>1 DEF RegisteredFds
    <2>4. CASE k # n
      <3>1. k \in 1..n - 1 /\ fds'[k] = f
        BY <1>1, <1>3, <2>1, <2>2, <2>4
      <3>2. QED
        BY <1>3, <3>1 DEF RegisteredFds
    <2>5. QED
      BY <2>3, <2>4
  <1>8. QED
    BY <1>5, <1>6, <1>7

\* UA_EventLoopLWIP_registerFD adds one socket.
LEMMA RegisterAdds ==
  ASSUME fds \in Seq(Fds), NoTwice, NEW f \in Fds, RegisterFD(f)
  PROVE  /\ fds' \in Seq(Fds) /\ Len(fds') = Len(fds) + 1
         /\ \A j \in 1..Len(fds) : fds'[j] = fds[j]
         /\ fds'[Len(fds) + 1] = f
         /\ RegisteredFds' = RegisteredFds \cup {f}
         /\ NoTwice'
  <1> DEFINE n == Len(fds)
  <1>1. n \in Nat /\ DOMAIN fds = 1..n
    OBVIOUS
  <1>2. /\ fds' \in Seq(Fds) /\ Len(fds') = n + 1 /\ DOMAIN fds' = 1..n + 1
        /\ \A j \in 1..n : fds'[j] = fds[j]
        /\ fds'[n + 1] = f
    BY DEF RegisterFD
  <1>3. \A k, j \in 1..n : fds[k] = fds[j] => k = j
    BY DEF NoTwice
  <1> HIDE DEF n
  <1>4. \A j \in 1..n : fds[j] # f
    BY <1>1 DEF RegisterFD, RegisteredFds
  <1>5. NoTwice'
    BY <1>1, <1>2, <1>3, <1>4 DEF NoTwice
  <1>6. RegisteredFds' = RegisteredFds \cup {f}
    BY <1>1, <1>2 DEF RegisteredFds
  <1>7. QED
    BY <1>2, <1>5, <1>6 DEF n

-----------------------------------------------------------------------------
(* The steps of the loop, each as a step of PollSet.                       *)

\* The sockets from an index on.
FromIndex(n) == {fds[k] : k \in (n + 1)..Len(fds)}

LEMMA RemainingCases ==
  /\ ~passing => Remaining = {}
  /\ passing /\ called = None => Remaining = FromIndex(index)
  /\ passing /\ called # None => Remaining = FromIndex(NextIndex(called))
  BY DEF Remaining, NextToLookAt, FromIndex

\* The socket at the index is taken from those that the loop has to look at.
LEMMA FromNext ==
  ASSUME fds \in Seq(Fds), NoTwice, NEW i \in Nat, i < Len(fds)
  PROVE  /\ fds[i + 1] \in FromIndex(i) /\ fds[i + 1] \in RegisteredFds
         /\ FromIndex(i + 1) = FromIndex(i) \ {fds[i + 1]}
  <1> DEFINE n == Len(fds)
  <1>1. n \in Nat /\ DOMAIN fds = 1..n
    OBVIOUS
  <1>2. \A k, j \in 1..n : fds[k] = fds[j] => k = j
    BY DEF NoTwice
  <1> HIDE DEF n
  <1>3. i + 1 \in 1..n /\ \A k \in (i + 1)..n : k \in 1..n /\ (k = i + 1 \/ k \in (i + 2)..n)
    BY <1>1 DEF n
  <1>4. fds[i + 1] \in {fds[k] : k \in (i + 1)..n} /\ fds[i + 1] \in RegisteredFds
    BY <1>1, <1>3 DEF RegisteredFds
  <1>5. {fds[k] : k \in (i + 2)..n} = {fds[k] : k \in (i + 1)..n} \ {fds[i + 1]}
    <2>1. \A k \in (i + 2)..n : k \in (i + 1)..n /\ fds[k] # fds[i + 1]
      BY <1>1, <1>2, <1>3
    <2>2. QED
      BY <1>3, <2>1
  <1>6. QED
    BY <1>4, <1>5 DEF FromIndex, n

\* Removing the socket at the index brings the last one there.
LEMMA FromAfterRemoval ==
  ASSUME fds \in Seq(Fds), NoTwice, NEW i \in Nat, i < Len(fds),
         fds' = Without(fds[i + 1])
  PROVE  FromIndex(i)' = FromIndex(i) \ {fds[i + 1]}
  <1> DEFINE n == Len(fds)
  <1>1. n \in Nat \ {0} /\ i + 1 \in 1..n /\ i < n
    OBVIOUS
  <1>2. \A k, j \in 1..n : fds[k] = fds[j] => k = j
    BY DEF NoTwice
  <1>3. /\ Len(fds') = n - 1
        /\ \A j \in 1..n - 1 : fds'[j] = IF j = i + 1 THEN fds[n] ELSE fds[j]
    BY <1>1, WithoutSlots
  <1> HIDE DEF n
  <1>4. ASSUME NEW k \in (i + 1)..n - 1
        PROVE  \E j \in (i + 1)..n : j # i + 1 /\ fds'[k] = fds[j]
    <2>1. k \in 1..n - 1 /\ k \in (i + 1)..n /\ n \in (i + 1)..n /\ k # n
      BY <1>1
    <2>2. CASE k = i + 1
      BY <1>3, <2>1, <2>2
    <2>3. CASE k # i + 1
      BY <1>3, <2>1, <2>3
    <2>4. QED
      BY <2>2, <2>3
  <1>5. ASSUME NEW j \in (i + 1)..n, j # i + 1
        PROVE  \E k \in (i + 1)..n - 1 : fds'[k] = fds[j]
    <2>1. CASE j = n
      <3>1. i + 1 \in (i + 1)..n - 1 /\ i + 1 \in 1..n - 1
        BY <1>1, <1>5, <2>1
      <3>2. QED
        BY <1>3, <2>1, <3>1
    <2>2. CASE j # n
      <3>1. j \in (i + 1)..n - 1 /\ j \in 1..n - 1
        BY <1>1, <1>5, <2>2
      <3>2. QED
        BY <1>3, <1>5, <3>1
    <2>3. QED
      BY <2>1, <2>2
  <1>6. \A j \in (i + 1)..n : fds[j] = fds[i + 1] => j = i + 1
    <2>1. \A j \in (i + 1)..n : j \in 1..n
      BY <1>1
    <2>2. QED
      BY <1>1, <1>2, <2>1
  <1>7. {fds'[k] : k \in (i + 1)..n - 1} = {fds[j] : j \in (i + 1)..n} \ {fds[i + 1]}
    <2>1. ASSUME NEW k \in (i + 1)..n - 1
          PROVE  fds'[k] \in {fds[j] : j \in (i + 1)..n} \ {fds[i + 1]}
      BY <1>4, <1>6
    <2>2. ASSUME NEW j \in (i + 1)..n, fds[j] # fds[i + 1]
          PROVE  fds[j] \in {fds'[k] : k \in (i + 1)..n - 1}
      BY <1>5, <2>2
    <2>3. QED
      BY <2>1, <2>2
  <1>8. QED
    BY <1>3, <1>7 DEF FromIndex, n

LEMMA BeginIsBegin ==
  ASSUME ArrayInv, NEW R \in SUBSET Fds, StartPass(R)
  PROVE  ArrayInv' /\ PassOverSet!Begin
  <1>1. fds \in Seq(Fds) /\ Len(fds) \in Nat /\ called = None
    BY DEF ArrayInv, PollTypeOK, IndexInv, StartPass
  <1>2. ArrayInv'
    BY <1>1 DEF ArrayInv, PollTypeOK, NoTwice, IndexInv, StartPass
  <1>3. FromIndex(0) = RegisteredFds
    BY <1>1 DEF FromIndex, RegisteredFds
  <1>4. Remaining' = RegisteredFds
    <2>1. passing' /\ called' = None /\ index' = 0 /\ fds' = fds
      BY <1>1 DEF StartPass
    <2>2. QED
      BY <1>3, <2>1 DEF Remaining, NextToLookAt, FromIndex
  <1>5. QED
    BY <1>2, <1>4 DEF PassOverSet!Begin, StartPass, RegisteredFds

\* PollTypeOK, NoTwice and IndexInv
LEMMA LookedFacts ==
  ASSUME ArrayInv, Looked
  PROVE  /\ fds \in Seq(Fds) /\ NoTwice /\ index \in Nat /\ index < Len(fds)
         /\ At(index) = fds[index + 1] /\ At(index) \in Fds /\ index + 1 \in 1..Len(fds)
         /\ Remaining = FromIndex(index) /\ called = None /\ passing
  <1>1. /\ fds \in Seq(Fds) /\ NoTwice /\ index \in Nat /\ index < Len(fds)
        /\ At(index) = fds[index + 1] /\ called = None /\ passing
    BY DEF ArrayInv, PollTypeOK, Looked, Within, At
  <1>2. index + 1 \in 1..Len(fds) /\ fds[index + 1] \in Fds
    BY <1>1
  <1>3. QED
    BY <1>1, <1>2, RemainingCases

LEMMA PassOverIsLookAt ==
  ASSUME ArrayInv, PassOver
  PROVE  ArrayInv' /\ \E f \in Fds : PassOverSet!LookAt(f)
  <1>1. Looked /\ index' = index + 1 /\ UNCHANGED <<fds, closing, ready, called, passing>>
    BY DEF PassOver
  <1>2. ArrayInv'
    BY <1>1, LookedFacts DEF ArrayInv, PollTypeOK, NoTwice, IndexInv
  <1>3. /\ fds[index + 1] \in Remaining
        /\ FromIndex(index + 1) = Remaining \ {fds[index + 1]}
    BY <1>1, LookedFacts, FromNext
  <1>4. Remaining' = Remaining \ {fds[index + 1]}
    BY <1>1, <1>3, LookedFacts DEF Remaining, NextToLookAt, FromIndex
  <1>5. QED
    BY <1>1, <1>2, <1>3, <1>4, LookedFacts DEF PassOverSet!LookAt, RegisteredFds

LEMMA CallBackIsLookAt ==
  ASSUME ArrayInv, CallBack
  PROVE  ArrayInv' /\ \E f \in Fds : PassOverSet!LookAt(f)
  <1> DEFINE f == fds[index + 1]
  <1>1. Looked /\ called' = f /\ UNCHANGED <<fds, closing, ready, index, passing>>
    BY DEF CallBack, At
  <1>2. f \in Fds /\ f # None
    BY <1>1, LookedFacts, PollAssumption
  <1>3. ArrayInv'
    BY <1>1, <1>2, LookedFacts DEF ArrayInv, PollTypeOK, NoTwice, IndexInv
  <1>4. f \in Remaining /\ FromIndex(index + 1) = Remaining \ {f}
    BY <1>1, LookedFacts, FromNext
  <1>5. NextIndex(called)' = index + 1
    BY <1>1, LookedFacts DEF NextIndex, HasRemovedItself, At
  <1>6. Remaining' = Remaining \ {f}
    BY <1>1, <1>2, <1>4, <1>5, LookedFacts DEF Remaining, NextToLookAt, FromIndex
  <1>7. PassOverSet!LookAt(f)
    BY <1>1, <1>4, <1>6, LookedFacts DEF PassOverSet!LookAt, RegisteredFds
  <1>8. QED
    BY <1>2, <1>3, <1>7

LEMMA RemovalIsLookAt ==
  ASSUME ArrayInv, CallBackThatRemoves
  PROVE  ArrayInv' /\ \E f \in Fds : PassOverSet!LookAt(f)
  <1> DEFINE f == fds[index + 1]
  <1>1. Looked /\ called' = f /\ fds' = Without(f) /\ UNCHANGED <<closing, ready, index, passing>>
    BY DEF CallBackThatRemoves, At
  <1>2. f \in Fds /\ f # None
    BY <1>1, LookedFacts, PollAssumption
  <1>3. RegisteredFds' = RegisteredFds \ {f} /\ NoTwice'
    BY <1>1, LookedFacts, WithoutRemoves
  <1>4. /\ fds' \in Seq(Fds) /\ Len(fds') = Len(fds) - 1
        /\ \A j \in 1..Len(fds) - 1 : fds'[j] = IF j = index + 1 THEN fds[Len(fds)] ELSE fds[j]
    BY <1>1, LookedFacts, WithoutType, WithoutSlots
  <1>5. ArrayInv'
    BY <1>1, <1>2, <1>3, <1>4, LookedFacts DEF ArrayInv, PollTypeOK, IndexInv
  <1>6. f \in Remaining /\ FromIndex(index)' = Remaining \ {f}
    BY <1>1, LookedFacts, FromNext, FromAfterRemoval
  <1>7. NextIndex(called)' = index
    <2>1. CASE index + 1 = Len(fds)
      BY <1>1, <1>4, <2>1, LookedFacts DEF NextIndex, HasRemovedItself
    <2>2. CASE index + 1 # Len(fds)
      <3>1. index + 1 \in 1..Len(fds) - 1 /\ Len(fds) \in 1..Len(fds)
        BY <1>1, <2>2, LookedFacts
      <3>2. fds'[index + 1] = fds[Len(fds)] /\ fds[Len(fds)] # f
        BY <1>1, <1>4, <2>2, <3>1, LookedFacts DEF NoTwice
      <3>3. QED
        BY <1>1, <3>2 DEF NextIndex, HasRemovedItself, At
    <2>3. QED
      BY <2>1, <2>2
  <1>8. Remaining' = Remaining \ {f}
    BY <1>1, <1>2, <1>6, <1>7, LookedFacts DEF Remaining, NextToLookAt, FromIndex
  <1>9. PassOverSet!LookAt(f)
    BY <1>1, <1>3, <1>6, <1>8, LookedFacts DEF PassOverSet!LookAt
  <1>10. QED
    BY <1>2, <1>5, <1>9

LEMMA ReturnIsReturn ==
  ASSUME ArrayInv, CallBackReturns
  PROVE  ArrayInv' /\ PassOverSet!Return
  <1>1. /\ called # None /\ passing /\ called' = None /\ index' = NextIndex(called)
        /\ UNCHANGED <<fds, closing, ready, passing>>
    BY DEF CallBackReturns
  <1>2. NextIndex(called) \in Nat /\ NextIndex(called) <= Len(fds)
    BY <1>1 DEF ArrayInv, PollTypeOK, IndexInv, NextIndex, HasRemovedItself
  <1>3. ArrayInv'
    BY <1>1, <1>2 DEF ArrayInv, PollTypeOK, NoTwice, IndexInv
  <1>4. Remaining' = Remaining
    BY <1>1 DEF Remaining, NextToLookAt
  <1>5. QED
    BY <1>1, <1>3, <1>4 DEF PassOverSet!Return, RegisteredFds

LEMMA EndIsEnd ==
  ASSUME ArrayInv, EndPass
  PROVE  ArrayInv' /\ PassOverSet!End
  <1>1. /\ passing /\ called = None /\ ~(index < Len(fds))
        /\ ~passing' /\ passing' \in BOOLEAN /\ index' = 0 /\ ready' = {}
        /\ UNCHANGED <<fds, closing, called>>
    BY DEF EndPass, Within
  <1>2. ArrayInv'
    BY <1>1 DEF ArrayInv, PollTypeOK, NoTwice, IndexInv
  <1>3. Remaining = {}
    <2>1. fds \in Seq(Fds) /\ index \in Nat
      BY DEF ArrayInv, PollTypeOK
    <2>2. (index + 1)..Len(fds) = {}
      BY <1>1, <2>1
    <2>3. QED
      BY <1>1, <2>2 DEF Remaining, NextToLookAt
  <1>4. Remaining' = {}
    BY <1>1 DEF Remaining
  <1>5. QED
    BY <1>1, <1>2, <1>3, <1>4 DEF PassOverSet!End, EndPass, RegisteredFds

\* A socket that is registered while the loop runs, from whatever callback, may
\* or may not be looked at in the same pass; the others are not concerned.
LEMMA RegisterIsRegister ==
  ASSUME ArrayInv, NEW f \in Fds, RegisterFD(f),
         UNCHANGED <<closing, ready, index, called, passing>>
  PROVE  ArrayInv' /\ PassOverSet!Register(f)
  <1> DEFINE n == Len(fds)
  <1>1. fds \in Seq(Fds) /\ NoTwice /\ n \in Nat /\ index \in Nat
    BY DEF ArrayInv, PollTypeOK
  <1>2. /\ fds' \in Seq(Fds) /\ Len(fds') = n + 1
        /\ \A j \in 1..n : fds'[j] = fds[j]
        /\ fds'[n + 1] = f
        /\ RegisteredFds' = RegisteredFds \cup {f}
        /\ NoTwice'
    BY <1>1, RegisterAdds
  <1> HIDE DEF n
  <1>3. ArrayInv'
    BY <1>1, <1>2 DEF ArrayInv, PollTypeOK, IndexInv, n
  <1>4. ASSUME NEW m \in 0..n
        PROVE  {fds'[k] : k \in (m + 1)..n + 1} = {fds[k] : k \in (m + 1)..n} \cup {f}
    <2>1. \A k \in (m + 1)..n : k \in 1..n /\ k \in (m + 1)..n + 1 /\ fds'[k] = fds[k]
      BY <1>1, <1>2
    <2>2. n + 1 \in (m + 1)..n + 1 /\ \A k \in (m + 1)..n + 1 : k = n + 1 \/ k \in (m + 1)..n
      BY <1>1
    <2>3. QED
      BY <1>2, <2>1, <2>2
  <1>5. Remaining' \in IF passing THEN {Remaining, Remaining \cup {f}} ELSE {Remaining}
    <2>1. CASE ~passing
      BY <2>1 DEF Remaining
    <2>2. CASE passing /\ called = None
      <3>1. index \in 0..n
        BY <1>1, <2>2 DEF ArrayInv, IndexInv, n
      <3>2. Remaining' = Remaining \cup {f}
        BY <1>2, <1>4, <2>2, <3>1 DEF Remaining, NextToLookAt, n
      <3>3. QED
        BY <2>2, <3>2
    <2>3. CASE passing /\ called # None /\ index < n
      <3>1. NextIndex(called)' = NextIndex(called) /\ NextIndex(called) \in 0..n
        BY <1>1, <1>2, <2>3 DEF NextIndex, HasRemovedItself, At, n
      <3>2. Remaining' = Remaining \cup {f}
        BY <1>2, <1>4, <2>3, <3>1 DEF Remaining, NextToLookAt, n
      <3>3. QED
        BY <2>3, <3>2
    <2>4. CASE passing /\ called # None /\ index = n
      <3>1. Remaining = {}
        BY <1>1, <2>4 DEF Remaining, NextToLookAt, NextIndex, HasRemovedItself, n
      <3>2. NextIndex(called)' \in {n, n + 1}
        BY <2>4 DEF NextIndex
      <3>3. CASE NextIndex(called)' = n
        <4>1. Remaining' = {fds'[k] : k \in (n + 1)..n + 1}
          BY <1>2, <2>4, <3>3 DEF Remaining, NextToLookAt
        <4>2. (n + 1)..n = {} /\ n \in 0..n
          BY <1>1
        <4>3. QED
          BY <1>4, <2>4, <3>1, <4>1, <4>2
      <3>4. CASE NextIndex(called)' = n + 1
        <4>1. Remaining' = {fds'[k] : k \in (n + 1 + 1)..n + 1}
          BY <1>2, <2>4, <3>4 DEF Remaining, NextToLookAt
        <4>2. (n + 1 + 1)..n + 1 = {}
          BY <1>1
        <4>3. QED
          BY <2>4, <3>1, <4>1, <4>2
      <3>5. QED
        BY <3>2, <3>3, <3>4
    <2>5. QED
      BY <1>1, <2>1, <2>2, <2>3, <2>4 DEF ArrayInv, IndexInv, n
  <1>6. QED
    BY <1>2, <1>3, <1>5 DEF PassOverSet!Register, RegisterFD

\* A socket whose close was delayed is removed while the loop does not run.
LEMMA RemoveIsDeregister ==
  ASSUME ArrayInv, ~passing, NEW f \in RegisteredFds, fds' = Without(f),
         closing' \subseteq Fds, UNCHANGED <<ready, index, called, passing>>
  PROVE  ArrayInv' /\ f \in Fds /\ PassOverSet!Deregister(f)
  <1>1. fds \in Seq(Fds) /\ NoTwice
    BY DEF ArrayInv, PollTypeOK
  <1>2. PICK i \in 1..Len(fds) : f = fds[i]
    BY <1>1 DEF RegisteredFds
  <1>3. RegisteredFds' = RegisteredFds \ {f} /\ NoTwice' /\ fds' \in Seq(Fds)
    BY <1>1, <1>2, WithoutRemoves, WithoutType
  <1>4. ArrayInv'
    BY <1>3 DEF ArrayInv, PollTypeOK, IndexInv
  <1>5. Remaining' = Remaining
    BY DEF Remaining
  <1>6. QED
    BY <1>1, <1>3, <1>4, <1>5, RegisteredType DEF PassOverSet!Deregister

-----------------------------------------------------------------------------
(* The loop.                                                               *)

\* What holds of the loop's flags in each phase, and of the dates of run.
PhaseInv ==
  /\ executing <=> phase # "idle"
  /\ phase \in {"idle", "wait", "poll"} => ~inCallback
  /\ phase # "idle" => before <= now
  /\ phase \in {"delayed", "wait"} => \A t \in timers \ fresh : next <= t

\* In select, the date to wake up at is not beyond the time of a timer, nor
\* the timeout, unless it has come; it has come if a delayed callback was
\* queued before.
SleepInv ==
  phase = "wait" /\ now < wakeAt => wakeAt <= next /\ wakeAt <= before + patience

IInv == TypeOK /\ PhaseInv /\ SleepInv /\ NoLostWakeup /\ OneSelfPipe

LEMMA NeverIsNat == Never \in Nat /\ \A t \in Times : t < Never
  BY WaitAssumption DEF Never, Times

LEMMA InitIInv == Init => IInv
  <1> SUFFICES ASSUME Init PROVE IInv
    OBVIOUS
  <1>1. PollTypeOK
    <2>1. fds = <<>> /\ closing = {} /\ ready = {} /\ index = 0 /\ called = None
      BY DEF Init, InitPoll
    <2>2. QED
      BY <2>1 DEF PollTypeOK
  <1>2. FlagTypeOK
    BY DEF Init, InitPoll, FlagTypeOK
  <1>3. TypeOK
    BY <1>1, <1>2 DEF Init, TypeOK, ValueTypeOK
  <1>4. PhaseInv
    BY DEF Init, PhaseInv
  <1>5. SleepInv /\ NoLostWakeup /\ OneSelfPipe
    BY DEF Init, SleepInv, NoLostWakeup, OneSelfPipe, Sleeping
  <1>6. QED
    BY <1>3, <1>4, <1>5 DEF IInv

-----------------------------------------------------------------------------
(* Types.                                                                  *)

LEMMA FlagTypes ==
  ASSUME FlagTypeOK, [Next]_vars PROVE FlagTypeOK'
  <1> USE DEF FlagTypeOK, pipeVars, timeVars, waitVars, pollVars
  <1>1. CASE Application
    BY <1>1 DEF Application, AddTimer, OpenSocket, CloseSocket, Start, Stop, CheckClosed
  <1>2. CASE OtherContext
    BY <1>2 DEF OtherContext, RemoteAdds, Cancel, TriggerSelfPipe
  <1>3. CASE Tick \/ UNCHANGED vars
    BY <1>3 DEF Tick, vars
  <1>4. ASSUME NEW timeout \in {0, Timeout}, BeginRun(timeout) PROVE FlagTypeOK'
    BY <1>4 DEF BeginRun
  <1>5. CASE ProcessDelayed \/ DelayedReturns \/ Wait \/ Flush
    BY <1>5 DEF ProcessDelayed, DelayedReturns, Wait, Flush
  <1>6. CASE SelectFails \/ EndRun
    BY <1>6 DEF SelectFails, EndRun, EndOfRun, CheckClosed, EndPass
  <1>7. ASSUME NEW c \in Fds \cup {Remote}, ExecuteDelayed(c) PROVE FlagTypeOK'
    BY <1>7 DEF ExecuteDelayed
  <1>8. ASSUME NEW R \in SUBSET Fds, SelectReturns(R) PROVE FlagTypeOK'
    BY <1>8 DEF SelectReturns, StartPass
  <1>9. CASE Poll
    BY <1>9 DEF Poll, PassOver, CallBack, CallBackThatRemoves, CallBackReturns
  <1>10. QED
    BY <1>1, <1>2, <1>3, <1>4, <1>5, <1>6, <1>7, <1>8, <1>9 DEF Next, Run

LEMMA PollTypes ==
  ASSUME TypeOK, [Next]_vars PROVE PollTypeOK'
  <1> USE DEF PollTypeOK, TypeOK, pipeVars, timeVars, waitVars, pollVars
  <1>0. ASSUME NEW k, k = At(index), Looked PROVE k \in Fds
    BY <1>0 DEF At, Looked, Within
  <1>1. CASE Application
    <2>1. CASE \E t \in Times : AddTimer(t)
      BY <2>1 DEF AddTimer
    <2>2. ASSUME NEW f \in Fds, OpenSocket(f) PROVE PollTypeOK'
      <3>1. Append(fds, f) \in Seq(Fds)
        BY <2>2
      <3>2. QED
        BY <2>2, <3>1 DEF OpenSocket, RegisterFD
    <2>3. ASSUME NEW f \in Fds, CloseSocket(f) PROVE PollTypeOK'
      BY <2>3 DEF CloseSocket
    <2>4. CASE Start \/ Stop
      BY <2>4, RegisteredType DEF Start, Stop
    <2>5. QED
      BY <1>1, <2>1, <2>2, <2>3, <2>4 DEF Application
  <1>2. CASE OtherContext
    BY <1>2 DEF OtherContext, RemoteAdds, Cancel, TriggerSelfPipe
  <1>3. CASE Tick \/ UNCHANGED vars
    BY <1>3 DEF Tick, vars
  <1>4. ASSUME NEW timeout \in {0, Timeout}, BeginRun(timeout) PROVE PollTypeOK'
    BY <1>4 DEF BeginRun
  <1>5. CASE ProcessDelayed \/ DelayedReturns \/ Wait \/ Flush
    BY <1>5 DEF ProcessDelayed, DelayedReturns, Wait, Flush
  <1>6. CASE SelectFails \/ EndRun
    BY <1>6 DEF SelectFails, EndRun, EndPass
  <1>7. ASSUME NEW c \in Fds \cup {Remote}, ExecuteDelayed(c) PROVE PollTypeOK'
    BY <1>7, WithoutType DEF ExecuteDelayed
  <1>8. ASSUME NEW R \in SUBSET Fds, SelectReturns(R) PROVE PollTypeOK'
    BY <1>8 DEF SelectReturns, StartPass
  <1>9. CASE Poll
    <2>1. CASE PassOver \/ CallBack
      BY <1>0, <2>1 DEF PassOver, CallBack
    <2>2. CASE CallBackThatRemoves
      BY <1>0, <2>2, WithoutType DEF CallBackThatRemoves
    <2>3. CASE CallBackReturns
      BY <2>3 DEF CallBackReturns, NextIndex
    <2>4. QED
      BY <1>9, <2>1, <2>2, <2>3 DEF Poll
  <1>10. QED
    BY <1>1, <1>2, <1>3, <1>4, <1>5, <1>6, <1>7, <1>8, <1>9 DEF Next, Run

LEMMA ValueTypes ==
  ASSUME TypeOK, [Next]_vars, PhaseInv, OneSelfPipe PROVE ValueTypeOK'
  <1> USE WaitAssumption DEF ValueTypeOK, TypeOK, PollTypeOK, pipeVars, timeVars, waitVars
  <1>1. CASE Application
    <2>1. ASSUME NEW t \in Times, AddTimer(t) PROVE ValueTypeOK'
      BY <2>1 DEF AddTimer
    <2>2. ASSUME NEW f \in Fds, OpenSocket(f) \/ CloseSocket(f) PROVE ValueTypeOK'
      BY <2>2 DEF OpenSocket, CloseSocket
    <2>3. CASE Start
      BY <2>3 DEF Start
    <2>4. CASE Stop
      BY <2>4, RegisteredType DEF Stop, CheckClosed, OneSelfPipe
    <2>5. QED
      BY <1>1, <2>1, <2>2, <2>3, <2>4 DEF Application
  <1>2. CASE OtherContext
    BY <1>2 DEF OtherContext, RemoteAdds, Cancel, TriggerSelfPipe
  <1>3. CASE Tick \/ UNCHANGED vars
    BY <1>3 DEF Tick, vars
  <1>4. ASSUME NEW timeout \in {0, Timeout}, BeginRun(timeout) PROVE ValueTypeOK'
    BY <1>4 DEF BeginRun
  <1>5. CASE ProcessDelayed
    BY <1>5, NeverIsNat DEF ProcessDelayed, NextTimes, Times
  <1>6. CASE DelayedReturns \/ Flush \/ Poll
    BY <1>6 DEF DelayedReturns, Flush, Poll
  <1>7. CASE Wait
    BY <1>7 DEF Wait, WakeTime, LongestWait
  <1>8. CASE SelectFails \/ EndRun
    BY <1>8 DEF SelectFails, EndRun, EndOfRun, CheckClosed, Stopping, OneSelfPipe
  <1>9. ASSUME NEW c \in Fds \cup {Remote}, ExecuteDelayed(c) PROVE ValueTypeOK'
    BY <1>9 DEF ExecuteDelayed
  <1>10. ASSUME NEW R \in SUBSET Fds, SelectReturns(R) PROVE ValueTypeOK'
    BY <1>10 DEF SelectReturns
  <1>11. QED
    BY <1>1, <1>2, <1>3, <1>4, <1>5, <1>6, <1>7, <1>8, <1>9, <1>10 DEF Next, Run

-----------------------------------------------------------------------------
(* The invariants.                                                         *)

\* The application is not called while the loop is in select.
LEMMA NoCallWhileWaiting ==
  ASSUME PhaseInv, ApplicationRuns PROVE phase # "wait"
  BY DEF ApplicationRuns, InPass, PhaseInv

LEMMA PipeIsKept ==
  ASSUME TypeOK, OneSelfPipe, [Next]_vars PROVE OneSelfPipe'
  <1> USE DEF OneSelfPipe, TypeOK, ValueTypeOK, pipeVars, timeVars, waitVars
  <1>1. CASE Application
    BY <1>1 DEF Application, AddTimer, OpenSocket, CloseSocket, Start, Stop, CheckClosed
  <1>2. CASE OtherContext \/ Tick \/ UNCHANGED vars
    BY <1>2 DEF OtherContext, RemoteAdds, Cancel, TriggerSelfPipe, Tick, vars
  <1>3. CASE SelectFails \/ EndRun
    BY <1>3 DEF SelectFails, EndRun, EndOfRun, CheckClosed, Stopping
  <1>4. CASE Run /\ ~SelectFails /\ ~EndRun
    BY <1>4 DEF Run, BeginRun, ProcessDelayed, DelayedReturns, Wait, ExecuteDelayed,
       SelectReturns, Flush, Poll
  <1>5. QED
    BY <1>1, <1>2, <1>3, <1>4 DEF Next

LEMMA PhaseIsKept ==
  ASSUME TypeOK, PhaseInv, [Next]_vars PROVE PhaseInv'
  <1> USE DEF PhaseInv, TypeOK, ValueTypeOK, FlagTypeOK, pipeVars, timeVars, waitVars
  <1>1. CASE Application
    <2>1. ASSUME NEW t \in Times, AddTimer(t) PROVE PhaseInv'
      BY <2>1, NoCallWhileWaiting DEF AddTimer
    <2>2. ASSUME NEW f \in Fds, OpenSocket(f) \/ CloseSocket(f) PROVE PhaseInv'
      BY <2>2 DEF OpenSocket, CloseSocket
    <2>3. CASE Start \/ Stop
      BY <2>3 DEF Start, Stop
    <2>4. QED
      BY <1>1, <2>1, <2>2, <2>3 DEF Application
  <1>2. CASE OtherContext
    BY <1>2 DEF OtherContext, RemoteAdds, Cancel, TriggerSelfPipe
  <1>3. CASE Tick \/ UNCHANGED vars
    BY <1>3 DEF Tick, vars
  <1>4. ASSUME NEW timeout \in {0, Timeout}, BeginRun(timeout) PROVE PhaseInv'
    BY <1>4 DEF BeginRun
  <1>5. CASE ProcessDelayed
    BY <1>5 DEF ProcessDelayed, NextTimes
  <1>6. CASE DelayedReturns \/ Flush \/ Poll \/ Wait
    BY <1>6 DEF DelayedReturns, Flush, Poll, Wait
  <1>7. CASE SelectFails \/ EndRun
    BY <1>7 DEF SelectFails, EndRun, EndOfRun
  <1>8. ASSUME NEW c \in Fds \cup {Remote}, ExecuteDelayed(c) PROVE PhaseInv'
    BY <1>8 DEF ExecuteDelayed
  <1>9. ASSUME NEW R \in SUBSET Fds, SelectReturns(R) PROVE PhaseInv'
    BY <1>9 DEF SelectReturns
  <1>10. QED
    BY <1>1, <1>2, <1>3, <1>4, <1>5, <1>6, <1>7, <1>8, <1>9 DEF Next, Run

\* The steps of the loop that are taken in select or lead to it.
LEMMA OnlyWaitLeadsToSelect ==
  ASSUME Run, phase' = "wait" PROVE Wait
  BY DEF Run, BeginRun, ProcessDelayed, DelayedReturns, Wait, SelectFails, EndOfRun,
     ExecuteDelayed, SelectReturns, Flush, Poll, EndRun, waitVars

LEMMA SleepIsKept ==
  ASSUME TypeOK, PhaseInv, SleepInv, [Next]_vars PROVE SleepInv'
  <1> SUFFICES ASSUME phase' = "wait" PROVE SleepInv'
    BY DEF SleepInv
  <1> USE DEF SleepInv, TypeOK, ValueTypeOK, pipeVars, timeVars, waitVars
  <1>1. CASE Application
    BY <1>1, NoCallWhileWaiting DEF Application, AddTimer, OpenSocket, CloseSocket, Start, Stop
  <1>2. CASE OtherContext \/ UNCHANGED vars
    BY <1>2 DEF OtherContext, RemoteAdds, Cancel, TriggerSelfPipe, vars
  <1>3. CASE Tick
    BY <1>3 DEF Tick
  <1>4. CASE Run
    <2>1. Wait
      BY <1>4, OnlyWaitLeadsToSelect
    <2>2. QED
      BY <2>1 DEF Wait, WakeTime, LongestWait
  <1>5. QED
    BY <1>1, <1>2, <1>3, <1>4 DEF Next

LEMMA WakeupIsKept ==
  ASSUME TypeOK, PhaseInv, NoLostWakeup, [Next]_vars PROVE NoLostWakeup'
  <1> SUFFICES ASSUME phase' = "wait" PROVE NoLostWakeup'
    BY DEF NoLostWakeup, Sleeping
  <1> USE DEF NoLostWakeup, Sleeping, TypeOK, ValueTypeOK, pipeVars, timeVars, waitVars
  <1>1. CASE Application
    BY <1>1, NoCallWhileWaiting DEF Application, AddTimer, OpenSocket, CloseSocket, Start, Stop
  <1>2. CASE RemoteAdds \/ UNCHANGED vars
    BY <1>2 DEF RemoteAdds, vars
  <1>3. CASE Cancel
    BY <1>3 DEF Cancel, PhaseInv
  <1>4. CASE TriggerSelfPipe
    BY <1>4 DEF TriggerSelfPipe
  <1>5. CASE Tick
    BY <1>5 DEF Tick
  <1>6. CASE Run
    <2>1. Wait
      BY <1>6, OnlyWaitLeadsToSelect
    <2>2. CASE queue # {}
      BY <2>1, <2>2 DEF Wait, WakeTime, LongestWait, PhaseInv
    <2>3. QED
      BY <2>1, <2>2 DEF Wait
  <1>7. QED
    BY <1>1, <1>2, <1>3, <1>4, <1>5, <1>6 DEF Next, OtherContext

LEMMA Invariance == Spec => []IInv
  <1>1. ASSUME IInv, [Next]_vars PROVE IInv'
    BY <1>1, PollTypes, FlagTypes, ValueTypes, PipeIsKept, PhaseIsKept, SleepIsKept,
       WakeupIsKept DEF IInv, TypeOK
  <1>2. QED
    BY InitIInv, <1>1, PTL DEF Spec

\* Every variable of the loop keeps its type.
THEOREM TypeCorrect == Spec => []TypeOK
  <1>1. IInv => TypeOK
    BY DEF IInv
  <1>2. QED
    BY Invariance, <1>1, PTL

\* UA_EventLoopLWIP_cancel: an addition of another context that is followed by
\* a cancel is not slept on, for whatever order of the accesses of both.
THEOREM NoWakeupIsLost == Spec => []NoLostWakeup
  <1>1. IInv => NoLostWakeup
    BY DEF IInv
  <1>2. QED
    BY Invariance, <1>1, PTL

\* UA_EventLoopLWIP_run sleeps no longer than its timeout and than until the
\* first timer that UA_Timer_process knew of.
THEOREM SleepBounded == Spec => []SleepIsBounded
  <1>1. IInv => SleepIsBounded
    <2> SUFFICES ASSUME IInv, Sleeping PROVE SleepIsBounded
      BY DEF SleepIsBounded
    <2>1. wakeAt <= next /\ wakeAt <= before + patience
      BY DEF IInv, SleepInv, Sleeping
    <2>2. \A t \in timers \ fresh : next <= t
      BY DEF IInv, PhaseInv, Sleeping
    <2>3. QED
      BY <2>1, <2>2 DEF SleepIsBounded, IInv, TypeOK, ValueTypeOK, Times
  <1>2. QED
    BY Invariance, <1>1, PTL

\* The self-pipe is open if and only if the loop is not stopped.
THEOREM PipeOpenWhileRunning == Spec => []OneSelfPipe
  <1>1. IInv => OneSelfPipe
    BY DEF IInv
  <1>2. QED
    BY Invariance, <1>1, PTL

-----------------------------------------------------------------------------
(* The pass over the sockets.                                              *)

\* The loop over the array runs in its phase only.  A socket is about to be
\* removed iff its callback is queued once, and until then it is in the array:
\* nobody else removes it.
PassInv ==
  /\ passing <=> phase = "poll"
  /\ closing = (queue \cup batch) \cap Fds
  /\ closing \subseteq RegisteredFds
  /\ queue \cap batch \cap Fds = {}
  /\ phase # "delayed" => batch = {}

RInv == TypeOK /\ ArrayInv /\ PassInv

LEMMA InitRefines == Init => RInv /\ PassOverSet!Init
  <1> SUFFICES ASSUME Init PROVE RInv /\ PassOverSet!Init
    OBVIOUS
  <1>1. /\ fds = <<>> /\ closing = {} /\ ready = {} /\ index = 0 /\ called = None
        /\ ~passing /\ passing \in BOOLEAN
        /\ queue = {} /\ batch = {} /\ phase = "idle"
    BY DEF Init, InitPoll
  <1>2. TypeOK
    BY InitIInv DEF IInv
  <1>3. ArrayInv
    BY <1>1, <1>2 DEF ArrayInv, TypeOK, NoTwice, IndexInv
  <1>4. RegisteredFds = {} /\ Remaining = {}
    BY <1>1 DEF RegisteredFds, Remaining
  <1>5. PassInv
    BY <1>1 DEF PassInv
  <1>6. PassOverSet!Init
    BY <1>1, <1>4, Zenon DEF PassOverSet!Init, Init, InitPoll
  <1>7. QED
    BY <1>2, <1>3, <1>5, <1>6 DEF RInv

\* A step that leaves the sockets alone.
LEMMA PollUnchanged ==
  ASSUME ArrayInv, UNCHANGED pollVars
  PROVE  /\ ArrayInv'
         /\ RegisteredFds' = RegisteredFds
         /\ UNCHANGED PassOverSet!vars
  <1>1. /\ fds' = fds /\ closing' = closing /\ ready' = ready /\ index' = index
        /\ called' = called /\ passing' = passing
    BY DEF pollVars
  <1>2. ArrayInv'
    BY <1>1 DEF ArrayInv, PollTypeOK, NoTwice, IndexInv
  <1>3. RegisteredFds' = RegisteredFds
    BY <1>1 DEF RegisteredFds
  <1>4. Remaining' = Remaining
    BY <1>1 DEF Remaining, NextToLookAt, NextIndex, HasRemovedItself, At
  <1>5. QED
    BY <1>1, <1>2, <1>3, <1>4 DEF PassOverSet!vars

LEMMA ApplicationRefines ==
  ASSUME RInv, Application PROVE ArrayInv' /\ PassInv' /\ [PassOverSet!Next]_PassOverSet!vars
  <1> USE DEF RInv
  <1>1. ASSUME NEW t \in Times, AddTimer(t)
        PROVE  ArrayInv' /\ PassInv' /\ [PassOverSet!Next]_PassOverSet!vars
    <2>1. UNCHANGED <<phase, queue, batch, pollVars>>
      BY <1>1 DEF AddTimer
    <2>2. QED
      BY <2>1, PollUnchanged DEF PassInv, pollVars
  <1>2. ASSUME NEW f \in Fds, OpenSocket(f)
        PROVE  ArrayInv' /\ PassInv' /\ [PassOverSet!Next]_PassOverSet!vars
    <2>1. /\ RegisterFD(f) /\ UNCHANGED <<closing, ready, index, called, passing>>
          /\ UNCHANGED <<phase, queue, batch>>
      BY <1>2 DEF OpenSocket, waitVars
    <2>2. ArrayInv' /\ PassOverSet!Register(f)
      BY <2>1, RegisterIsRegister
    <2>3. RegisteredFds' = RegisteredFds \cup {f}
      BY <2>2 DEF PassOverSet!Register
    <2>4. PassInv'
      BY <2>1, <2>3 DEF PassInv
    <2>5. QED
      BY <2>2, <2>4 DEF PassOverSet!Next
  <1>3. ASSUME NEW f \in Fds, CloseSocket(f)
        PROVE  ArrayInv' /\ PassInv' /\ [PassOverSet!Next]_PassOverSet!vars
    <2>1. /\ f \in RegisteredFds \ closing
          /\ closing' = closing \cup {f} /\ queue' = queue \cup {f}
          /\ UNCHANGED <<phase, batch, fds, ready, index, called, passing>>
      BY <1>3 DEF CloseSocket
    <2>2. RegisteredFds' = RegisteredFds
      BY <2>1 DEF RegisteredFds
    <2>3. ArrayInv'
      BY <2>1 DEF ArrayInv, PollTypeOK, NoTwice, IndexInv
    <2>4. PassInv'
      BY <2>1, <2>2 DEF PassInv
    <2>5. Remaining' = Remaining
      BY <2>1 DEF Remaining, NextToLookAt, NextIndex, HasRemovedItself, At
    <2>6. QED
      BY <2>1, <2>2, <2>3, <2>4, <2>5 DEF PassOverSet!vars
  <1>4. CASE Start
    <2>1. UNCHANGED <<phase, queue, batch, pollVars>>
      BY <1>4 DEF Start
    <2>2. QED
      BY <2>1, PollUnchanged DEF PassInv, pollVars
  <1>5. CASE Stop
    <2>1. /\ closing' = RegisteredFds
          /\ queue' = queue \cup (RegisteredFds \ closing)
          /\ UNCHANGED <<phase, batch, fds, ready, index, called, passing>>
      BY <1>5 DEF Stop
    <2>2. RegisteredFds' = RegisteredFds
      BY <2>1 DEF RegisteredFds
    <2>3. RegisteredFds \subseteq Fds
      BY RegisteredType DEF ArrayInv, PollTypeOK
    <2>4. ArrayInv'
      BY <2>1, <2>3 DEF ArrayInv, PollTypeOK, NoTwice, IndexInv
    <2>5. PassInv'
      BY <2>1, <2>2, <2>3 DEF PassInv
    <2>6. Remaining' = Remaining
      BY <2>1 DEF Remaining, NextToLookAt, NextIndex, HasRemovedItself, At
    <2>7. QED
      BY <2>1, <2>2, <2>4, <2>5, <2>6 DEF PassOverSet!vars
  <1>6. QED
    BY <1>1, <1>2, <1>3, <1>4, <1>5 DEF Application

\* The steps of the iteration outside the loop over the array.
LEMMA IterationRefines ==
  ASSUME RInv,
         \/ \E timeout \in {0, Timeout} : BeginRun(timeout)
         \/ ProcessDelayed \/ DelayedReturns \/ Wait \/ SelectFails \/ Flush
  PROVE  ArrayInv' /\ PassInv' /\ [PassOverSet!Next]_PassOverSet!vars
  <1>1. UNCHANGED pollVars
    BY DEF BeginRun, ProcessDelayed, DelayedReturns, Wait, SelectFails, Flush
  <1>2. ArrayInv' /\ RegisteredFds' = RegisteredFds /\ UNCHANGED PassOverSet!vars
    BY <1>1, PollUnchanged DEF RInv
  <1>3. closing' = closing /\ passing' = passing
    BY <1>1 DEF pollVars
  <1>4. PassInv'
    BY <1>2, <1>3 DEF RInv, PassInv, BeginRun, ProcessDelayed, DelayedReturns, Wait,
       SelectFails, EndOfRun, Flush
  <1>5. QED
    BY <1>2, <1>4

LEMMA ExecuteRefines ==
  ASSUME RInv, NEW c \in Fds \cup {Remote}, ExecuteDelayed(c)
  PROVE  ArrayInv' /\ PassInv' /\ [PassOverSet!Next]_PassOverSet!vars
  <1>1. /\ phase = "delayed" /\ c \in batch /\ batch' = batch \ {c}
        /\ closing' = closing \ {c}
        /\ UNCHANGED <<phase, queue, ready, index, called, passing>>
    BY DEF ExecuteDelayed
  <1>2. ~passing /\ closing \subseteq Fds /\ closing \subseteq RegisteredFds
    BY <1>1 DEF RInv, PassInv
  <1>3. CASE c \in Fds
    <2>1. c \in RegisteredFds /\ fds' = Without(c)
      BY <1>1, <1>2, <1>3 DEF ExecuteDelayed, RInv, PassInv
    <2>2. ArrayInv' /\ PassOverSet!Deregister(c)
      BY <1>1, <1>2, <2>1, RemoveIsDeregister DEF RInv
    <2>3. RegisteredFds' = RegisteredFds \ {c}
      BY <2>2 DEF PassOverSet!Deregister
    <2>4. PassInv'
      BY <1>1, <1>2, <1>3, <2>3 DEF RInv, PassInv
    <2>5. QED
      BY <1>3, <2>2, <2>4 DEF PassOverSet!Next
  <1>4. CASE c \notin Fds
    <2>1. fds' = fds /\ closing' = closing
      BY <1>1, <1>2, <1>4 DEF ExecuteDelayed
    <2>2. ArrayInv' /\ RegisteredFds' = RegisteredFds /\ UNCHANGED PassOverSet!vars
      BY <1>1, <2>1, PollUnchanged DEF RInv, pollVars
    <2>3. PassInv'
      BY <1>1, <1>4, <2>1, <2>2 DEF RInv, PassInv
    <2>4. QED
      BY <2>2, <2>3
  <1>5. QED
    BY <1>3, <1>4

\* pollFDs
LEMMA PollRefines ==
  ASSUME RInv, (\E R \in SUBSET Fds : SelectReturns(R)) \/ Poll \/ EndRun
  PROVE  ArrayInv' /\ PassInv' /\ [PassOverSet!Next]_PassOverSet!vars
  <1> USE DEF RInv
  <1>1. ASSUME NEW R \in SUBSET Fds, SelectReturns(R)
        PROVE  ArrayInv' /\ PassInv' /\ [PassOverSet!Next]_PassOverSet!vars
    <2>1. /\ StartPass(R) /\ phase = "wait" /\ phase' = "poll" /\ passing'
          /\ UNCHANGED <<queue, batch, fds, closing>>
      BY <1>1 DEF SelectReturns, StartPass
    <2>2. ArrayInv' /\ PassOverSet!Begin
      BY <2>1, BeginIsBegin
    <2>3. PassInv'
      BY <2>1 DEF PassInv, RegisteredFds
    <2>4. QED
      BY <2>2, <2>3 DEF PassOverSet!Next
  <1>2. CASE Poll
    <2>1. UNCHANGED <<phase, queue, batch>>
      BY <1>2 DEF Poll, waitVars
    <2>2. CASE PassOver \/ CallBack \/ CallBackReturns
      <3>1. ArrayInv' /\ PassOverSet!Next
        BY <2>2, PassOverIsLookAt, CallBackIsLookAt, ReturnIsReturn DEF PassOverSet!Next
      <3>2. UNCHANGED <<fds, closing, passing>>
        BY <2>2 DEF PassOver, CallBack, CallBackReturns
      <3>3. PassInv'
        BY <2>1, <3>2 DEF PassInv, RegisteredFds
      <3>4. QED
        BY <3>1, <3>3
    <2>3. CASE CallBackThatRemoves
      <3>1. ArrayInv' /\ PassOverSet!Next
        BY <2>3, RemovalIsLookAt DEF PassOverSet!Next
      <3>2. /\ Looked /\ At(index) \notin closing /\ fds' = Without(fds[index + 1])
            /\ UNCHANGED <<closing, passing>>
        BY <2>3 DEF CallBackThatRemoves, HasEvent, At
      <3>3. RegisteredFds' = RegisteredFds \ {At(index)}
        BY <3>2, LookedFacts, WithoutRemoves
      <3>4. PassInv'
        BY <2>1, <3>2, <3>3 DEF PassInv
      <3>5. QED
        BY <3>1, <3>4
    <2>4. QED
      BY <1>2, <2>2, <2>3 DEF Poll
  <1>3. CASE EndRun
    <2>1. EndPass /\ phase' = "idle" /\ phase = "poll" /\ UNCHANGED <<queue, batch>>
      BY <1>3 DEF EndRun, EndOfRun
    <2>2. ArrayInv' /\ PassOverSet!End
      BY <2>1, EndIsEnd
    <2>3. ~passing' /\ UNCHANGED <<fds, closing>>
      BY <2>1 DEF EndPass
    <2>4. PassInv'
      BY <2>1, <2>3 DEF PassInv, RegisteredFds
    <2>5. QED
      BY <2>2, <2>4 DEF PassOverSet!Next
  <1>4. QED
    BY <1>1, <1>2, <1>3

LEMMA OthersRefine ==
  ASSUME RInv, OtherContext \/ Tick \/ UNCHANGED vars
  PROVE  ArrayInv' /\ PassInv' /\ [PassOverSet!Next]_PassOverSet!vars
  <1>1. UNCHANGED <<phase, batch, pollVars>> /\ queue' \cap Fds = queue \cap Fds
    BY WaitAssumption DEF OtherContext, RemoteAdds, Cancel, TriggerSelfPipe, Tick, vars, waitVars
  <1>2. ArrayInv' /\ RegisteredFds' = RegisteredFds /\ UNCHANGED PassOverSet!vars
    BY <1>1, PollUnchanged DEF RInv
  <1>3. closing' = closing /\ passing' = passing
    BY <1>1 DEF pollVars
  <1>4. PassInv'
    BY <1>1, <1>2, <1>3 DEF RInv, PassInv
  <1>5. QED
    BY <1>2, <1>4

LEMMA StepRefines ==
  ASSUME RInv, [Next]_vars PROVE ArrayInv' /\ PassInv' /\ [PassOverSet!Next]_PassOverSet!vars
  BY ApplicationRefines, IterationRefines, ExecuteRefines, PollRefines, OthersRefine
     DEF Next, Run

\* The walk of UA_EventLoopLWIP_pollFDs over the array by index, with callbacks
\* that register and remove sockets and the last socket moved into the place of
\* a removed one, is a pass over the set of the registered sockets: each is
\* looked at once, unless its own callback has removed it.
THEOREM PassImplementsPollSet == Spec => PassSpec
  <1>1. Init => RInv /\ PassOverSet!Init
    BY InitRefines
  <1>2. ASSUME RInv, [Next]_vars, TypeOK'
        PROVE  RInv' /\ [PassOverSet!Next]_PassOverSet!vars
    BY <1>2, StepRefines DEF RInv
  <1>3. QED
    BY <1>1, <1>2, TypeCorrect, PTL DEF Spec, PassSpec, PassOverSet!Spec
=============================================================================
