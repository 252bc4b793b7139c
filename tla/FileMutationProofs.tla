-------------------------- MODULE FileMutationProofs --------------------------
(***************************************************************************)
(* Mutations of one path take turns, and what a rename replaces is what    *)
(* was read: proved for any number of mutations and outside writers.       *)
(*                                                                         *)
(* The chain is a linked list of promises.  That the newest mutation, when *)
(* it has its turn, is the only one left cannot be seen from the links of  *)
(* one mutation: the invariant says that there is an order, the one in     *)
(* which the mutations joined, that the links follow without a gap.        *)
(***************************************************************************)
EXTENDS FileMutation, TLAPS

\* In the chain: a mutation that joined and has not left.
Active(m) == pc[m] = "waiting" \/ pc[m] \in Owner

\* older is an order of the mutations in the chain, and each of them awaits the
\* one just before it; the newest is the one the next mutation will await.
ChainedBy(older) ==
    /\ \A m, n \in Mutations : Active(m) /\ Active(n) =>
          /\ m # n => <<m, n>> \in older \/ <<n, m>> \in older
          /\ ~(<<m, n>> \in older /\ <<n, m>> \in older)
          /\ <<m, n>> \in older =>
                /\ ~Turn(n)
                /\ m = previous[n] \/ <<m, previous[n]>> \in older
    /\ last = None => \A m \in Mutations : ~Active(m)
    /\ last # None =>
          /\ Active(last)
          /\ \A m \in Mutations : Active(m) /\ m # last => <<m, last>> \in older

ChainOK ==
    /\ \E older \in SUBSET (Mutations \X Mutations) : ChainedBy(older)
    /\ \A m \in Mutations : pc[m] \in Owner => Turn(m)
    /\ \A m \in Mutations : Active(m) /\ previous[m] # None => pc[previous[m]] # "idle"
    /\ \A m \in staged \ littered : pc[m] \in Owner

\* What a mutation that will rename has read is what it may replace, and is still
\* there when the rename is called, unless an outsider was faster.
ReadOK ==
    \A m \in Mutations :
       /\ pc[m] \in {"read", "staged", "renaming"} =>
             before[m] \in expected[m] /\ (m \in Edits => before[m] # NoFile)
       /\ pc[m] = "renaming" /\ m \notin raced => file = before[m]

IInv == TypeOK /\ ChainOK /\ ReadOK /\ AbortKeepsFile

-------------------------------------------------------------------------------
\* Two mutations that have their turn are one.
LEMMA TurnsExclude ==
    ASSUME TypeOK, ChainOK, NEW m \in Mutations, NEW n \in Mutations,
           Active(m), Active(n), Turn(m), Turn(n)
    PROVE  m = n
  BY DEF ChainOK, ChainedBy

LEMMA OwnersExclude ==
    ASSUME TypeOK, ChainOK, NEW m \in Mutations, NEW n \in Mutations,
           pc[m] \in Owner, pc[n] \in Owner
    PROVE  m = n
  BY TurnsExclude DEF ChainOK, Active

\* A step inside the turn of a mutation, or of nobody, leaves the chain alone.
LEMMA ChainStays ==
    ASSUME TypeOK, ChainOK, UNCHANGED <<last, previous>>,
           \A m \in Mutations : (Active(m)' <=> Active(m)) /\ (Ended(m)' <=> Ended(m)),
           \A m \in Mutations : pc[m] # "idle" => pc'[m] # "idle",
           \A m \in Mutations : pc'[m] \in Owner => Turn(m),
           \A m \in staged' \ littered' : pc'[m] \in Owner
    PROVE  ChainOK'
<1>1. \A m \in Mutations : Turn(m)' <=> Turn(m)
  BY DEF Turn, TypeOK
<1>2. PICK older \in SUBSET (Mutations \X Mutations) : ChainedBy(older)
  BY DEF ChainOK
<1>3. ChainedBy(older)'
  BY <1>1, <1>2 DEF ChainedBy, TypeOK
<1>4. \A m \in Mutations : Active(m)' /\ previous'[m] # None => pc'[previous'[m]] # "idle"
  BY DEF ChainOK, TypeOK
<1>5. QED
  BY <1>1, <1>3, <1>4 DEF ChainOK

LEMMA InitIInv == Init => IInv
<1> SUFFICES ASSUME Init PROVE IInv
  OBVIOUS
<1>1. TypeOK
  <2>1. {} \in Content /\ NoFile \in Content
    BY DEF Content
  <2>2. QED
    BY <2>1 DEF Init, TypeOK
<1>2. \A m \in Mutations : ~Active(m) /\ pc[m] \notin Owner
  BY DEF Init, Active, Owner
<1>3. ChainedBy({})
  BY <1>2 DEF ChainedBy, Init
<1>4. QED
  BY <1>1, <1>2, <1>3 DEF IInv, ChainOK, ReadOK, AbortKeepsFile, Init

-------------------------------------------------------------------------------
\* A mutation joins behind the newest: every one in the chain is before it.
LEMMA JoinStep ==
    ASSUME IInv, NEW m \in Mutations, Join(m)
    PROVE  IInv'
<1>1. /\ pc[m] = "idle" /\ pc' = [pc EXCEPT ![m] = "waiting"]
      /\ previous' = [previous EXCEPT ![m] = last] /\ last' = m
      /\ UNCHANGED <<file, before, aborted, staged, written, raced, littered>>
      /\ expected' \in {[expected EXCEPT ![m] = x] : x \in {Content, {file}}}
  BY DEF Join, Goto
<1>2. TypeOK'
  BY <1>1 DEF IInv, TypeOK
<1>3. PICK older \in SUBSET (Mutations \X Mutations) : ChainedBy(older)
  BY DEF IInv, ChainOK
<1>4. /\ ~Active(m) /\ Active(m)' /\ \A n \in Mutations : n # m => (Active(n)' <=> Active(n))
      /\ \A n \in Mutations : Active(n) => n # m
  BY <1>1 DEF IInv, TypeOK, Active, Owner
<1>5. \A n \in Mutations : n # m /\ Active(n) =>
         /\ previous'[n] = previous[n] /\ previous[n] # m
         /\ Turn(n)' <=> Turn(n)
  <2>1. \A n \in Mutations : n # m /\ Active(n) =>
           /\ previous'[n] = previous[n] /\ previous[n] # m
           /\ previous[n] # None => pc'[previous[n]] = pc[previous[n]]
    BY <1>1, MutationAssumption DEF IInv, TypeOK, ChainOK
  <2>2. QED
    BY <2>1 DEF Turn, Ended
<1>6. Active(last) \/ last = None
  BY <1>3 DEF ChainedBy
<1>7. pc'[last] \notin {"done", "failed"} \/ last = None
  BY <1>1, <1>6 DEF IInv, TypeOK, Active, Ended, Owner
<1>7a. PICK now \in SUBSET (Mutations \X Mutations) :
          now = {p \in older : Active(p[1]) /\ Active(p[2])} \cup
                {<<n, m>> : n \in {k \in Mutations : Active(k)}}
  <2>1. \A n \in {p \in older : Active(p[1]) /\ Active(p[2])} \cup
                 {<<n, m>> : n \in {k \in Mutations : Active(k)}} : n \in Mutations \X Mutations
    BY <1>3
  <2>2. QED
    BY <2>1
<1>8. \A k, n \in Mutations :
         /\ Active(k) /\ Active(n) => (<<k, n>> \in now <=> <<k, n>> \in older)
         /\ Active(k) => <<k, m>> \in now
         /\ <<m, k>> \notin now
  BY <1>4, <1>7a
<1>10. ASSUME NEW k \in Mutations, NEW n \in Mutations, Active(k)', Active(n)'
       PROVE  /\ k # n => <<k, n>> \in now \/ <<n, k>> \in now
              /\ ~(<<k, n>> \in now /\ <<n, k>> \in now)
              /\ <<k, n>> \in now =>
                    /\ ~Turn(n)'
                    /\ k = previous'[n] \/ <<k, previous'[n]>> \in now
  <2>1. CASE k # m /\ n # m
    <3>1. Active(k) /\ Active(n)
      BY <1>4, <1>10, <2>1
    <3>2. /\ k # n => <<k, n>> \in older \/ <<n, k>> \in older
          /\ ~(<<k, n>> \in older /\ <<n, k>> \in older)
          /\ <<k, n>> \in older =>
                    /\ ~Turn(n)
                    /\ k = previous[n] \/ <<k, previous[n]>> \in older
      BY <1>3, <3>1 DEF ChainedBy
    <3>3. ~Turn(n) => previous[n] \in Mutations /\ Active(previous[n])
      BY <3>1 DEF IInv, TypeOK, ChainOK, Turn, Ended, Active
    <3>4. QED
      BY <1>5, <1>8, <2>1, <3>1, <3>2, <3>3
  <2>2. CASE n = m /\ k # m
    <3>1. Active(k) /\ previous'[n] = last /\ last # None
      BY <1>1, <1>3, <1>4, <1>10, <2>2 DEF IInv, TypeOK, ChainedBy
    <3>2. k = last \/ <<k, last>> \in older
      BY <1>3, <3>1 DEF ChainedBy
    <3>3. ~Turn(n)'
      BY <1>1, <1>7, <3>1 DEF Turn, Ended
    <3>4. QED
      BY <1>6, <1>8, <2>2, <3>1, <3>2, <3>3 DEF IInv, TypeOK
  <2>3. CASE k = m
    BY <1>4, <1>8, <1>10, <2>3
  <2>4. QED
    BY <2>1, <2>2, <2>3
<1>11. ChainedBy(now)'
  BY <1>1, <1>4, <1>8, <1>10, MutationAssumption DEF ChainedBy
<1>12. ChainOK'
  <2>1. \A n \in Mutations : pc'[n] \in Owner => Turn(n)'
    BY <1>1, <1>5 DEF IInv, TypeOK, ChainOK, Active, Owner
  <2>2. \A n \in Mutations : Active(n)' /\ previous'[n] # None => pc'[previous'[n]] # "idle"
    BY <1>1, <1>4, <1>5, <1>6 DEF IInv, TypeOK, ChainOK, Active, Owner
  <2>3. \A n \in staged' \ littered' : pc'[n] \in Owner
    BY <1>1 DEF IInv, TypeOK, ChainOK, Owner
  <2>4. QED
    BY <1>11, <2>1, <2>2, <2>3 DEF ChainOK
<1>13. ReadOK'
  BY <1>1 DEF IInv, TypeOK, ReadOK
<1>14. AbortKeepsFile'
  BY <1>1 DEF IInv, TypeOK, AbortKeepsFile
<1>15. QED
  BY <1>2, <1>12, <1>13, <1>14 DEF IInv

-------------------------------------------------------------------------------
\* A mutation leaves: the next one, if there is one, gets the turn; if the newest
\* leaves, nobody is left.
LEMMA LeaveStep ==
    ASSUME IInv, NEW m \in Mutations, Leave(m)
    PROVE  IInv'
<1>1. /\ pc[m] \in Owner /\ pc' = [pc EXCEPT ![m] = pc'[m]] /\ pc'[m] \in {"done", "failed"}
      /\ previous' = [previous EXCEPT ![m] = None] /\ last' = LastAfter(m)
      /\ expected' = [expected EXCEPT ![m] = Content]
      /\ before' = [before EXCEPT ![m] = NoFile]
      /\ aborted' = aborted \ {m}
      /\ staged' \subseteq staged /\ littered' \subseteq littered \cup {m}
      /\ staged' \ littered' \subseteq (staged \ littered) \ {m}
      /\ UNCHANGED <<file, written, raced>>
  BY DEF Leave, Unlink, Goto, Forget, Owner, IInv, TypeOK
<1>2. TypeOK'
  BY <1>1 DEF IInv, TypeOK, Content, LastAfter
<1>3. PICK older \in SUBSET (Mutations \X Mutations) : ChainedBy(older)
  BY DEF IInv, ChainOK
<1>4. /\ Active(m) /\ Turn(m) /\ ~Active(m)'
      /\ \A n \in Mutations : n # m => (Active(n)' <=> Active(n))
      /\ \A n \in Mutations : Active(n)' => n # m
  BY <1>1 DEF IInv, TypeOK, ChainOK, Active, Owner
<1>5. \A n \in Mutations : Active(n) => <<n, m>> \notin older
  BY <1>3, <1>4 DEF ChainedBy
<1>6. \A n \in Mutations : n # m /\ Active(n) => previous'[n] = previous[n]
  BY <1>1 DEF IInv, TypeOK
<1>7. \A n \in Mutations : n # m => (Ended(n)' <=> Ended(n))
  BY <1>1 DEF IInv, TypeOK, Ended
<1>8. Ended(m)' /\ ~Ended(m)
  BY <1>1 DEF Ended, Owner
<1>9. \A n \in Mutations : n # m /\ Active(n) /\ Turn(n) => Turn(n)'
  BY <1>6, <1>7, <1>8, MutationAssumption DEF Turn, IInv, TypeOK
<1>10. ASSUME NEW k \in Mutations, NEW n \in Mutations, Active(k)', Active(n)', <<k, n>> \in older
       PROVE  ~Turn(n)' /\ (k = previous'[n] \/ <<k, previous'[n]>> \in older)
  <2>1. k # m /\ n # m /\ Active(k) /\ Active(n)
    BY <1>4, <1>10
  <2>2. ~Turn(n) /\ (k = previous[n] \/ <<k, previous[n]>> \in older)
    BY <1>3, <1>10, <2>1 DEF ChainedBy
  <2>3. previous[n] # m
    BY <1>5, <2>1, <2>2
  <2>4. QED
    BY <1>6, <1>7, <2>1, <2>2, <2>3, MutationAssumption DEF Turn, IInv, TypeOK
<1>11. last = m => \A n \in Mutations : ~Active(n)'
  BY <1>3, <1>4, <1>5, MutationAssumption DEF ChainedBy
<1>12. last # m => last' = last
  BY <1>1 DEF LastAfter
<1>13. ChainedBy(older)'
  <2>1. \A k, n \in Mutations : Active(k)' /\ Active(n)' =>
           /\ k # n => <<k, n>> \in older \/ <<n, k>> \in older
           /\ ~(<<k, n>> \in older /\ <<n, k>> \in older)
    BY <1>3, <1>4 DEF ChainedBy
  <2>2. last' = None => \A n \in Mutations : ~Active(n)'
    BY <1>3, <1>4, <1>11, <1>12 DEF ChainedBy
  <2>3. last' # None =>
           /\ Active(last)' /\ last # m /\ last' = last
           /\ \A n \in Mutations : Active(n)' /\ n # last => <<n, last>> \in older
    BY <1>1, <1>3, <1>4, <1>12 DEF ChainedBy, LastAfter, IInv, TypeOK
  <2>4. QED
    BY <1>10, <2>1, <2>2, <2>3 DEF ChainedBy
<1>14. ChainOK'
  <2>1. \A n \in Mutations : pc'[n] \in Owner => Turn(n)'
    BY <1>1, <1>9 DEF IInv, TypeOK, ChainOK, Active, Owner
  <2>2. \A n \in Mutations : Active(n)' /\ previous'[n] # None => pc'[previous'[n]] # "idle"
    BY <1>1, <1>4, <1>6 DEF IInv, TypeOK, ChainOK, Owner
  <2>3. \A n \in staged' \ littered' : pc'[n] \in Owner
    BY <1>1 DEF IInv, TypeOK, ChainOK
  <2>4. QED
    BY <1>13, <2>1, <2>2, <2>3 DEF ChainOK
<1>15. ReadOK'
  BY <1>1 DEF IInv, TypeOK, ReadOK
<1>16. AbortKeepsFile'
  BY <1>1 DEF IInv, TypeOK, AbortKeepsFile
<1>17. QED
  BY <1>2, <1>14, <1>15, <1>16 DEF IInv

-------------------------------------------------------------------------------
\* The steps of a mutation that has its turn.
LEMMA TurnStep ==
    ASSUME IInv, NEW m \in Mutations, Read(m) \/ Stage(m) \/ Recheck(m) \/ Rename(m) \/ Throw(m)
    PROVE  IInv'
<1>1. /\ pc[m] \in {"waiting"} \cup Owner /\ pc'[m] \in Owner
      /\ pc' = [pc EXCEPT ![m] = pc'[m]] /\ Turn(m)
      /\ staged' \subseteq staged \cup {m}
      /\ UNCHANGED <<last, previous, expected, aborted, written, littered>>
  BY DEF Read, Stage, Recheck, Rename, Throw, Goto, Owner, IInv, TypeOK, ChainOK
<1>2. /\ \A n \in Mutations : (Active(n)' <=> Active(n)) /\ (Ended(n)' <=> Ended(n))
      /\ \A n \in Mutations : pc[n] # "idle" => pc'[n] # "idle"
  BY <1>1 DEF IInv, TypeOK, Active, Ended, Owner
<1>3. \A n \in Mutations : pc'[n] \in Owner => Turn(n)
  BY <1>1 DEF IInv, TypeOK, ChainOK
<1>4. \A n \in staged' \ littered' : pc'[n] \in Owner
  BY <1>1 DEF IInv, TypeOK, ChainOK
<1>5. ChainOK'
  BY <1>1, <1>2, <1>3, <1>4, ChainStays DEF IInv
<1>6. TypeOK' /\ ReadOK' /\ AbortKeepsFile'
  <2>1. CASE Read(m)
    BY <1>1, <2>1 DEF Read, Acceptable, IInv, TypeOK, ReadOK, AbortKeepsFile, Goto
  <2>2. CASE Stage(m)
    BY <1>1, <2>2 DEF Stage, IInv, TypeOK, ReadOK, AbortKeepsFile, Goto
  <2>3. CASE Recheck(m)
    BY <1>1, <2>3 DEF Recheck, IInv, TypeOK, ReadOK, AbortKeepsFile, Goto
  <2>4. CASE Rename(m)
    <3>1. \A n \in Mutations : n # m => pc[n] # "renaming"
      BY <2>4, OwnersExclude DEF Rename, Goto, Owner, IInv
    <3>2. file' \in Content
      BY <2>4 DEF Rename, Goto, IInv, TypeOK, ReadOK, Content
    <3>3. TypeOK'
      BY <1>1, <2>4, <3>2 DEF Rename, IInv, TypeOK
    <3>4. ReadOK'
      BY <2>4, <3>1 DEF Rename, Goto, IInv, TypeOK, ReadOK
    <3>5. AbortKeepsFile'
      BY <2>4 DEF Rename, Goto, IInv, TypeOK, AbortKeepsFile
    <3>6. QED
      BY <3>3, <3>4, <3>5
  <2>5. CASE Throw(m)
    BY <1>1, <2>5 DEF Throw, IInv, TypeOK, ReadOK, AbortKeepsFile
  <2>6. QED
    BY <2>1, <2>2, <2>3, <2>4, <2>5
<1>7. QED
  BY <1>5, <1>6 DEF IInv

\* An abort, and a write of another program, happen beside the chain.
LEMMA BesideStep ==
    ASSUME IInv, (\E m \in Mutations : Abort(m)) \/ (\E o \in Outsiders : OutsiderWrites(o)) \/ UNCHANGED vars
    PROVE  IInv'
<1>1. UNCHANGED <<last, previous, pc, expected, before, staged, littered>>
  BY DEF Abort, OutsiderWrites, vars
<1>2. ChainOK'
  BY <1>1, ChainStays DEF IInv, ChainOK, Active, Ended
<1>3. TypeOK' /\ ReadOK' /\ AbortKeepsFile'
  <2>1. CASE \E m \in Mutations : Abort(m)
    BY <2>1 DEF Abort, IInv, TypeOK, ReadOK, AbortKeepsFile
  <2>2. ASSUME NEW o \in Outsiders, OutsiderWrites(o)
        PROVE  TypeOK' /\ ReadOK' /\ AbortKeepsFile'
    <3>1. file' \in Content
      BY <2>2 DEF OutsiderWrites, IInv, TypeOK, Content, NoFile
    <3>2. QED
      BY <2>2, <3>1 DEF OutsiderWrites, IInv, TypeOK, ReadOK, AbortKeepsFile
  <2>3. CASE UNCHANGED vars
    BY <2>3 DEF vars, IInv, TypeOK, ReadOK, AbortKeepsFile
  <2>4. QED
    BY <2>1, <2>2, <2>3
<1>4. QED
  BY <1>2, <1>3 DEF IInv

LEMMA NextIInv == IInv /\ [Next]_vars => IInv'
  BY JoinStep, LeaveStep, TurnStep, BesideStep DEF Next, Advance

THEOREM Inductive == Spec => []IInv
  BY InitIInv, NextIInv, PTL DEF Spec

\* Mutations of one path take turns, and a temporary file beside the path is that of
\* the one whose turn it is, or one whose removal failed (filesystem-runner.mjs 26-69).
THEOREM OneOwnerAtATime == Spec => []OneOwner
<1>1. IInv => OneOwner
  BY OwnersExclude DEF IInv, ChainOK, OneOwner
<1>2. QED
  BY <1>1, Inductive, PTL

\* An abort before the rename keeps the file.
THEOREM AbortsKeepTheFile == Spec => []AbortKeepsFile
  BY Inductive, PTL DEF IInv

\* A rename replaces what the mutation read and accepted, unless an outsider wrote
\* after the last check: the turns keep every other mutation of the gateway away
\* from the file between the check and the rename.
THEOREM RenamesReplaceWhatWasRead == Spec => ReplacesWhatWasRead
<1>1. ASSUME IInv, [Next]_vars, NEW m \in Mutations,
             pc[m] = "renaming", pc'[m] = "leaving", m \notin raced
      PROVE  file \in expected[m] /\ (m \in Edits => file' = file \cup {m})
  <2>1. file = before[m] /\ before[m] \in expected[m]
    BY <1>1 DEF IInv, ReadOK
  <2>2. Rename(m)
    BY <1>1 DEF Next, Advance, Join, Read, Stage, Recheck, Rename, Throw, Leave, Abort,
         OutsiderWrites, Goto, IInv, TypeOK, vars
  <2>3. QED
    BY <2>1, <2>2 DEF Rename
<1>2. IInv /\ [Next]_vars =>
         (\A m \in Mutations : pc[m] = "renaming" /\ pc'[m] = "leaving" /\ m \notin raced =>
             /\ file \in expected[m]
             /\ m \in Edits => file' = file \cup {m})
  BY <1>1
<1>3. QED
  BY <1>2, Inductive, PTL DEF Spec, ReplacesWhatWasRead

-------------------------------------------------------------------------------
(* Nobody waits for a turn that no mutation has. *)

\* As long as a mutation is in the chain, one of them has its turn: a chain whose
\* mutations all wait, for each other or for one that is gone, does not exist.  That
\* the one with the turn goes on is all that MutationsEnd then needs.
TurnTaken ==
    (\E m \in Mutations : Active(m)) => \E m \in Mutations : Active(m) /\ Turn(m)

\* Every mutation of the chain but the newest is awaited: its turn is handed on.
Followed ==
    \A m \in Mutations : Active(m) /\ m # last =>
       \E n \in Mutations : Active(n) /\ previous[n] = m

\* Whoever joins awaits the newest, which had no follower, or has the turn at once.
LEMMA JoinHandsOn ==
    ASSUME IInv, TurnTaken, Followed, NEW m \in Mutations, Join(m)
    PROVE  TurnTaken' /\ Followed'
<1>1. /\ pc[m] = "idle" /\ pc' = [pc EXCEPT ![m] = "waiting"]
      /\ previous' = [previous EXCEPT ![m] = last] /\ last' = m
  BY DEF Join, Goto
<1>2. /\ ~Active(m) /\ Active(m)'
      /\ \A n \in Mutations : n # m => (Active(n)' <=> Active(n)) /\ previous'[n] = previous[n]
      /\ previous'[m] = last
  BY <1>1 DEF IInv, TypeOK, Active, Owner
<1>3. last = None => \A n \in Mutations : ~Active(n)
  BY DEF IInv, ChainOK, ChainedBy
<1>4. TurnTaken'
  <2>1. CASE \E n \in Mutations : Active(n)
    <3>1. PICK n \in Mutations : Active(n) /\ Turn(n)
      BY <2>1 DEF TurnTaken
    <3>2. n # m /\ previous'[n] = previous[n]
      BY <1>2, <3>1
    <3>3. previous[n] # None => pc'[previous[n]] = pc[previous[n]]
      BY <1>1, <3>1, MutationAssumption DEF IInv, TypeOK, Turn, Ended
    <3>4. Turn(n)'
      BY <3>1, <3>2, <3>3 DEF Turn, Ended
    <3>5. QED
      BY <1>2, <3>1, <3>2, <3>4 DEF TurnTaken
  <2>2. CASE \A n \in Mutations : ~Active(n)
    <3>1. last = None
      BY <2>2 DEF IInv, TypeOK, ChainOK, ChainedBy
    <3>2. Turn(m)'
      BY <1>2, <3>1 DEF Turn
    <3>3. QED
      BY <1>2, <3>2 DEF TurnTaken
  <2>3. QED
    BY <2>1, <2>2
<1>5. Followed'
  <2>1. SUFFICES ASSUME NEW k \in Mutations, Active(k)', k # m
                 PROVE  \E n \in Mutations : Active(n)' /\ previous'[n] = k
    BY <1>1 DEF Followed
  <2>2. Active(k)
    BY <1>2, <2>1
  <2>3. CASE k = last
    BY <1>2, <2>3
  <2>4. CASE k # last
    <3>1. PICK n \in Mutations : Active(n) /\ previous[n] = k
      BY <2>2, <2>4 DEF Followed
    <3>2. QED
      BY <1>2, <3>1
  <2>5. QED
    BY <2>3, <2>4
<1>6. QED
  BY <1>4, <1>5

\* Whoever leaves had the turn, and the one that awaits it has it then.
LEMMA LeaveHandsOn ==
    ASSUME IInv, TurnTaken, Followed, NEW m \in Mutations, Leave(m)
    PROVE  TurnTaken' /\ Followed'
<1>1. /\ pc[m] \in Owner /\ pc' = [pc EXCEPT ![m] = pc'[m]] /\ pc'[m] \in {"done", "failed"}
      /\ previous' = [previous EXCEPT ![m] = None] /\ last' = LastAfter(m)
  BY DEF Leave, Goto, Forget, Owner, IInv, TypeOK
<1>2. /\ Active(m) /\ Turn(m) /\ ~Active(m)'
      /\ \A n \in Mutations : n # m => (Active(n)' <=> Active(n)) /\ previous'[n] = previous[n]
  BY <1>1 DEF IInv, TypeOK, ChainOK, Active, Owner
<1>3. ~Ended(m) /\ Ended(m)'
  BY <1>1 DEF Ended, Owner
<1>4. m = last => \A n \in Mutations : Active(n) => n = m
  BY <1>2, MutationAssumption DEF IInv, ChainOK, ChainedBy
<1>5. m # last => last' = last
  BY <1>1 DEF LastAfter
<1>6. TurnTaken'
  <2>1. CASE m = last
    BY <1>2, <1>4, <2>1 DEF TurnTaken
  <2>2. CASE m # last
    <3>1. PICK n \in Mutations : Active(n) /\ previous[n] = m
      BY <1>2, <2>2 DEF Followed
    <3>2. n # m
      BY <1>2, <1>3, <3>1, MutationAssumption DEF Turn
    <3>3. Active(n)' /\ Turn(n)'
      BY <1>2, <1>3, <3>1, <3>2 DEF Turn
    <3>4. QED
      BY <3>3 DEF TurnTaken
  <2>3. QED
    BY <2>1, <2>2
<1>7. Followed'
  <2>1. SUFFICES ASSUME NEW k \in Mutations, Active(k)', k # last'
                 PROVE  \E n \in Mutations : Active(n)' /\ previous'[n] = k
    BY DEF Followed
  <2>2. k # m /\ Active(k)
    BY <1>2, <2>1
  <2>3. k # last
    BY <1>4, <1>5, <2>1, <2>2
  <2>4. PICK n \in Mutations : Active(n) /\ previous[n] = k
    BY <2>2, <2>3 DEF Followed
  <2>5. n # m
    <3>1. k # None /\ ~Ended(k)
      BY <2>2, MutationAssumption DEF Active, Ended, Owner
    <3>2. QED
      BY <1>2, <2>4, <3>1 DEF Turn
  <2>6. QED
    BY <1>2, <2>4, <2>5
<1>8. QED
  BY <1>6, <1>7

\* Every other step leaves the chain and who has ended as they are.
LEMMA OthersHandNothingOn ==
    ASSUME IInv, TurnTaken, Followed, UNCHANGED <<last, previous>>,
           \A m \in Mutations : (Active(m)' <=> Active(m)) /\ (Ended(m)' <=> Ended(m))
    PROVE  TurnTaken' /\ Followed'
<1>1. \A m \in Mutations : Turn(m)' <=> Turn(m)
  BY DEF Turn, IInv, TypeOK
<1>2. TurnTaken'
  BY <1>1 DEF TurnTaken
<1>3. Followed'
  BY DEF Followed
<1>4. QED
  BY <1>2, <1>3

\* The chain of a path never blocks itself: as long as a mutation waits, one has its
\* turn, whatever failed or was aborted before (filesystem-runner.mjs 26-69).
THEOREM TurnIsTaken == Spec => []TurnTaken
<1>1. Init => TurnTaken /\ Followed
  BY DEF Init, TurnTaken, Followed, Active, Owner
<1>2. IInv /\ TurnTaken /\ Followed /\ [Next]_vars => TurnTaken' /\ Followed'
  <2> SUFFICES ASSUME IInv, TurnTaken, Followed, [Next]_vars
               PROVE  TurnTaken' /\ Followed'
    OBVIOUS
  <2>1. ASSUME NEW m \in Mutations, Read(m) \/ Stage(m) \/ Recheck(m) \/ Rename(m) \/ Throw(m)
        PROVE  TurnTaken' /\ Followed'
    <3>1. /\ pc[m] \in {"waiting"} \cup Owner /\ pc'[m] \in Owner
          /\ pc' = [pc EXCEPT ![m] = pc'[m]]
          /\ UNCHANGED <<last, previous>>
      BY <2>1 DEF Read, Stage, Recheck, Rename, Throw, Goto, Owner, IInv, TypeOK
    <3>2. \A n \in Mutations : (Active(n)' <=> Active(n)) /\ (Ended(n)' <=> Ended(n))
      BY <3>1 DEF IInv, TypeOK, Active, Ended, Owner
    <3>3. QED
      BY <3>1, <3>2, OthersHandNothingOn
  <2>2. ASSUME UNCHANGED <<last, previous, pc>>
        PROVE  TurnTaken' /\ Followed'
    BY <2>2, OthersHandNothingOn DEF Active, Ended
  <2>3. ASSUME NEW m \in Mutations, Abort(m)
        PROVE  UNCHANGED <<last, previous, pc>>
    BY <2>3 DEF Abort
  <2>4. ASSUME NEW o \in Outsiders, OutsiderWrites(o)
        PROVE  UNCHANGED <<last, previous, pc>>
    BY <2>4 DEF OutsiderWrites
  <2>5. CASE UNCHANGED vars
    BY <2>2, <2>5 DEF vars
  <2>6. QED
    BY <2>1, <2>2, <2>3, <2>4, <2>5, JoinHandsOn, LeaveHandsOn DEF Next, Advance
<1>3. QED
  BY <1>1, <1>2, Inductive, PTL DEF Spec
===============================================================================
