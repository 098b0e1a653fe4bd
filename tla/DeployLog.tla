------------------------------ MODULE DeployLog ------------------------------
(***************************************************************************)
(* What a project's deploy history promises its reader (the deploys panel  *)
(* of the project page and RollbackProject): a log that is only appended   *)
(* to, whose entries are settled once and never change afterwards, and a   *)
(* project whose image reference is only ever the tag it was created with, *)
(* one that is typed into its form, or one that an entry of the log names. *)
(***************************************************************************)
EXTENDS Integers, Sequences

CONSTANTS Digests, Tag, FormRefs, None

Refs == Digests \cup {Tag}

VARIABLES
  log,    \* the entries, in the order in which the deploys started
  image   \* the image reference the project is configured with, or None

Entry == [status : {"running", "live", "failed"},
          ref : Refs, digest : Digests \cup {None}]

Init == log = <<>> /\ image = None

\* A deploy starts, of a reference the project has or had.
Begin(ref) ==
  /\ image # None
  /\ log' = Append(log, [status |-> "running", ref |-> ref, digest |-> None])
  /\ UNCHANGED image

\* A running deploy is settled; only an entry with an image pin may be live.
Settle(i, status, digest) ==
  /\ image # None
  /\ log[i].status = "running"
  /\ status = "live" => digest # None
  /\ log' = [log EXCEPT ![i] = [@ EXCEPT !.status = status, !.digest = digest]]
  /\ UNCHANGED image

\* A form creates the project, or sets its image reference.
Type(ref) ==
  /\ image # None \/ log = <<>>
  /\ image' = ref
  /\ UNCHANGED log

\* A rollback goes to what an entry of the log names.
UseEntry(i) ==
  /\ image # None
  /\ image' \in {log[i].ref, log[i].digest} \ {None}
  /\ UNCHANGED log

\* Deleting the project ends the use of its history.
Purge == image' = None /\ UNCHANGED log

Next ==
  \/ \E ref \in Refs : Begin(ref)
  \/ \E ref \in FormRefs \cup {Tag} : Type(ref)
  \/ \E i \in DOMAIN log, status \in {"live", "failed"}, digest \in Digests \cup {None} :
       Settle(i, status, digest)
  \/ \E i \in DOMAIN log : UseEntry(i)
  \/ Purge

Spec == Init /\ [][Next]_<<log, image>>
=============================================================================
