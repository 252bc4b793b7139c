----------------------------- MODULE FileMutation -----------------------------
(***************************************************************************)
(* files_write and files_edit on one canonical path (mutate() of           *)
(* gateway/lib/filesystem-runner.mjs): the chain of mutations of the path, *)
(* staging beside the file, the check for outside writers and the rename.  *)
(*                                                                         *)
(* A content is the set of those whose text is in it: an edit adds its own *)
(* to what it read, a write replaces everything.  Times and inodes are left*)
(* out: where they differ though the content is the same, the mutation     *)
(* fails, as any of its steps may.                                         *)
(***************************************************************************)
EXTENDS FiniteSets

CONSTANTS
    Mutations,   \* calls of mutate() for the path
    Edits,       \* those of files_edit; the others are of files_write
    Outsiders,   \* writes of other programs, each at most once
    None         \* no predecessor; in a content: there is no file

ASSUME MutationAssumption == Edits \subseteq Mutations /\ None \notin Mutations \cup Outsiders

VARIABLES
    file,      \* what is at the path
    last,      \* mutations.get(target): the newest in the chain
    previous,  \* whom each mutation awaits
    pc,        \* where each mutation is
    expected,  \* the contents that expectedContentHash accepts
    before,    \* what the mutation read
    aborted,   \* mutations whose signal was aborted before the rename was called
    staged,    \* mutations whose temporary file exists
    written,   \* outsiders that wrote
    raced,     \* history: an outsider wrote after the mutation's last look
    littered   \* history: mutations whose temporary file could not be removed

vars == <<file, last, previous, pc, expected, before, aborted, staged,
          written, raced, littered>>

NoFile == {None}
Content == {NoFile} \cup SUBSET (Mutations \cup Outsiders)

Init ==
    /\ file \in {NoFile, {}}
    /\ last = None
    /\ previous = [m \in Mutations |-> None]
    /\ pc = [m \in Mutations |-> "idle"]
    /\ expected = [m \in Mutations |-> Content]
    /\ before = [m \in Mutations |-> NoFile]
    /\ aborted = {}
    /\ staged = {}
    /\ written = {}
    /\ raced = {}
    /\ littered = {}

-------------------------------------------------------------------------------
Goto(m, from, to) == pc[m] = from /\ pc' = [pc EXCEPT ![m] = to]

\* The canonical path is known (symlinks resolve to it) and the chain is joined.
\* The caller may expect what it last read, now or long ago.
Join(m) ==
    /\ Goto(m, "idle", "waiting")
    /\ expected' \in {[expected EXCEPT ![m] = x] : x \in {Content, {file}}}
    /\ previous' = [previous EXCEPT ![m] = last]
    /\ last' = m
    /\ UNCHANGED <<file, before, aborted, staged, written, raced, littered>>

Ended(m) == pc[m] \in {"done", "failed"}

\* await previous; then the signal is checked and the file is read.
Turn(m) == previous[m] # None => Ended(previous[m])

\* Mutant: an expectation is not compared.
AcceptableEdit(m) == m \in Edits => file # NoFile

\* expectedContentHash is the version of what is there; an edit needs a file.
Acceptable(m) ==
    /\ file \in expected[m]
    /\ m \in Edits => file # NoFile

Read(m) ==
    /\ Turn(m)
    /\ m \notin aborted
    /\ Acceptable(m)
    /\ Goto(m, "waiting", "read")
    /\ before' = [before EXCEPT ![m] = file]
    /\ UNCHANGED <<file, last, previous, expected, aborted, staged, written, raced, littered>>

\* mkdir, writeFile of the temporary, chown, chmod.
Stage(m) ==
    /\ Goto(m, "read", "staged")
    /\ staged' = staged \cup {m}
    /\ UNCHANGED <<file, last, previous, expected, before, aborted, written, raced, littered>>

\* Mutant: the file is not looked at again.
RecheckNothing(m) ==
    /\ m \notin aborted
    /\ Goto(m, "staged", "renaming")
    /\ raced' = raced \ {m}
    /\ UNCHANGED <<file, last, previous, expected, before, aborted, staged, written, littered>>

\* Mutant: the signal is checked at the start only.
RecheckAborted(m) ==
    /\ file = before[m]
    /\ Goto(m, "staged", "renaming")
    /\ raced' = raced \ {m}
    /\ UNCHANGED <<file, last, previous, expected, before, aborted, staged, written, littered>>

\* The second snapshot agrees with the first and the signal is not aborted: the
\* rename is called.
Recheck(m) ==
    /\ m \notin aborted
    /\ file = before[m]
    /\ Goto(m, "staged", "renaming")
    /\ raced' = raced \ {m}
    /\ UNCHANGED <<file, last, previous, expected, before, aborted, staged, written, littered>>

Rename(m) ==
    /\ Goto(m, "renaming", "leaving")
    /\ file' = IF m \in Edits THEN before[m] \cup {m} ELSE {m}
    /\ staged' = staged \ {m}
    /\ UNCHANGED <<last, previous, expected, before, aborted, written, raced, littered>>

\* Any step throws: an I/O error, a conflict, text not found, an abort.
Throw(m) ==
    /\ pc[m] \in {"waiting", "read", "staged", "renaming"}
    /\ pc[m] = "waiting" => Turn(m)
    /\ pc' = [pc EXCEPT ![m] = "cleaning"]
    /\ staged' \in {staged} \cup (IF pc[m] = "read" THEN {staged \cup {m}} ELSE {})
    /\ UNCHANGED <<file, last, previous, expected, before, aborted, written, raced, littered>>

\* Mutant: the chain is forgotten by whoever leaves it.
LastAfterAny(m) == None

\* if (mutations.get(target) === held) mutations.delete(target)
LastAfter(m) == IF last = m THEN None ELSE last

\* What mutate() held in its locals is gone.
Forget(m) ==
    /\ previous' = [previous EXCEPT ![m] = None]
    /\ expected' = [expected EXCEPT ![m] = Content]
    /\ before' = [before EXCEPT ![m] = NoFile]
    /\ aborted' = aborted \ {m}

\* unlink(temporary).catch(() => {}): the file goes, or it stays and nobody is told.
\* After the rename there is none.
Unlink(m) ==
    \/ staged' = staged \ {m} /\ UNCHANGED littered
    \/ m \in staged /\ littered' = littered \cup {m} /\ UNCHANGED staged

\* Mutant: a mutation that threw does not release the next one.
LeaveUnreleased(m) ==
    /\ Goto(m, "leaving", "done")
    /\ Unlink(m)
    /\ last' = LastAfter(m)
    /\ Forget(m)
    /\ UNCHANGED <<file, written, raced>>

\* Mutant: the temporary file of a mutation that threw stays.
LeaveStaged(m) ==
    /\ Goto(m, "leaving", "done") \/ Goto(m, "cleaning", "failed")
    /\ last' = LastAfter(m)
    /\ Forget(m)
    /\ UNCHANGED <<file, staged, written, raced, littered>>

\* The finally block: the temporary is unlinked, which may fail without a word, and
\* the next mutation is released.
Leave(m) ==
    /\ Goto(m, "leaving", "done") \/ Goto(m, "cleaning", "failed")
    /\ Unlink(m)
    /\ last' = LastAfter(m)
    /\ Forget(m)
    /\ UNCHANGED <<file, written, raced>>

\* AbortSignal; once the rename is called nothing looks at it any more.
Abort(m) ==
    /\ m \notin aborted /\ pc[m] \in {"waiting", "read", "staged"}
    /\ aborted' = aborted \cup {m}
    /\ UNCHANGED <<file, last, previous, pc, expected, before, staged, written, raced, littered>>

\* Another program edits, creates or removes the file; it knows no chain.
OutsiderWrites(o) ==
    /\ o \notin written
    /\ written' = written \cup {o}
    /\ file' \in {NoFile, (file \ NoFile) \cup {o}}
    /\ raced' = raced \cup {m \in Mutations : pc[m] = "renaming"}
    /\ UNCHANGED <<last, previous, pc, expected, before, aborted, staged, littered>>

Advance(m) ==
    Read(m) \/ Stage(m) \/ Recheck(m) \/ Rename(m) \/ Throw(m) \/ Leave(m)

Next ==
    \/ \E m \in Mutations : Join(m) \/ Advance(m) \/ Abort(m)
    \/ \E o \in Outsiders : OutsiderWrites(o)

Spec == Init /\ [][Next]_vars

\* Each file operation ends, with or without an error.
FairSpec == Spec /\ \A m \in Mutations : WF_vars(Advance(m))

-------------------------------------------------------------------------------
\* Where a mutation is while it has its turn.
Owner == {"read", "staged", "renaming", "leaving", "cleaning"}

\* Every variable holds a value the program can hold in it.
TypeOK ==
    /\ file \in Content /\ last \in Mutations \cup {None}
    /\ previous \in [Mutations -> Mutations \cup {None}]
    /\ before \in [Mutations -> Content]
    /\ expected \in [Mutations -> SUBSET Content]
    /\ pc \in [Mutations -> {"idle", "waiting", "done", "failed"} \cup Owner]
    /\ aborted \cup staged \cup raced \cup littered \subseteq Mutations
    /\ written \subseteq Outsiders

\* Mutations of the path take turns, whatever outcome each has and however late
\* the next one joins, and a temporary file beside the path is that of the mutation
\* whose turn it is.  None is left behind, but for one that could not be removed:
\* that failure is swallowed and the file stays.
OneOwner ==
    /\ TypeOK
    /\ \A m, n \in Mutations : {pc[m], pc[n]} \subseteq Owner => m = n
    /\ \A m \in staged \ littered : pc[m] \in Owner

\* What a rename replaces is what the mutation read, accepted and based its text
\* on, unless an outsider wrote between the last check and the rename, which the
\* code admits: no mutation of this gateway, and nothing an outsider wrote before
\* the check, is lost.
ReplacesWhatWasRead ==
    [][\A m \in Mutations : pc[m] = "renaming" /\ pc'[m] = "leaving" /\ m \notin raced =>
          /\ file \in expected[m]
          /\ m \in Edits => file' = file \cup {m}]_vars

\* An abort that comes before the rename was called keeps the file as it was.
AbortKeepsFile ==
    \A m \in aborted : pc[m] \in {"waiting", "read", "staged", "cleaning"}

\* Every mutation gets its turn and ends, also behind one that throws.
MutationsEnd == \A m \in Mutations : pc[m] = "waiting" ~> Ended(m)
===============================================================================
