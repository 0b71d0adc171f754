----------------------------- MODULE SearchIndex -----------------------------
(***************************************************************************)
(* What synchronization promises of a resource's index, without requests,  *)
(* transactions, generations or chunks.  An attempt has a key that is used *)
(* once.  It is made of a manifest that was the official content when it   *)
(* was read, and was not being indexed or indexed already when that was    *)
(* looked up; it succeeds or fails for good, if it ends at all; and the    *)
(* first one to succeed is what is searched.                               *)
(*                                                                         *)
(* Two things are what the code does, not what it is meant to do: that no  *)
(* later attempt succeeds (ReplacesPrior in RetrievalSync), and that       *)
(* content with parts missing is read once it has been withheld at the     *)
(* wrong moment, which torn says (CompleteUnlessTorn there).               *)
(***************************************************************************)
CONSTANTS Keys, Parts, Versions

VARIABLES
    content,    \* the version of each part that is official, or Withheld
    torn,       \* parts were withheld between a look at the content and its reading
    read,       \* manifests that somebody has read
    unclaimed,  \* those of them that nobody was indexing and nobody had indexed
    attempt,    \* the status and the manifest of each attempt
    searched    \* the keys of the attempts that searches read

index == <<content, torn, read, unclaimed, attempt, searched>>

Withheld  == "withheld"
Nothing   == [p \in Parts |-> Withheld]
NoAttempt == [status |-> "none", manifest |-> Nothing]

Init ==
    /\ content \in [Parts -> Versions]
    /\ torn = FALSE
    /\ read = {}
    /\ unclaimed = {}
    /\ attempt = [k \in Keys |-> NoAttempt]
    /\ searched = {}

Author ==
    /\ content' \in [Parts -> Versions \cup {Withheld}]
    /\ torn' \in {torn, TRUE}
    /\ UNCHANGED <<read, unclaimed, attempt, searched>>

Read ==
    /\ content # Nothing
    /\ torn \/ \A p \in Parts : content[p] # Withheld
    /\ read' = read \cup {content}
    /\ UNCHANGED <<content, torn, unclaimed, attempt, searched>>

LookUp(manifest) ==
    /\ \A k \in Keys : attempt[k].manifest = manifest => attempt[k].status \in {"none", "failed"}
    /\ unclaimed' = unclaimed \cup {manifest}
    /\ read' \in SUBSET read
    /\ UNCHANGED <<content, torn, attempt, searched>>

Drop ==
    /\ read' \in SUBSET read
    /\ unclaimed' \in SUBSET unclaimed
    /\ UNCHANGED <<content, torn, attempt, searched>>

\* Nobody looks again: the manifest need not be the official content any more,
\* and somebody else may have begun with it.
Begin(k) ==
    /\ attempt[k] = NoAttempt
    /\ \E manifest \in unclaimed :
        attempt' = [attempt EXCEPT ![k] = [status |-> "synchronizing", manifest |-> manifest]]
    /\ unclaimed' \in SUBSET unclaimed
    /\ UNCHANGED <<content, torn, read, searched>>

Succeed(k) ==
    /\ attempt[k].status = "synchronizing"
    /\ searched = {}
    /\ attempt' = [attempt EXCEPT ![k].status = "synchronized"]
    /\ searched' = {k}
    /\ UNCHANGED <<content, torn, read, unclaimed>>

Fail(k) ==
    /\ attempt[k].status = "synchronizing"
    /\ attempt' = [attempt EXCEPT ![k].status = "failed"]
    /\ UNCHANGED <<content, torn, read, unclaimed, searched>>

Next ==
    \/ Author \/ Read \/ Drop
    \/ \E manifest \in read : LookUp(manifest)
    \/ \E k \in Keys : Begin(k) \/ Succeed(k) \/ Fail(k)

Spec == Init /\ [][Next]_index
=============================================================================
