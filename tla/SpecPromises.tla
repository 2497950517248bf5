---------------------------- MODULE SpecPromises ----------------------------
(***************************************************************************)
(* The two chapters of SPEC.md that are abstract specifications here, with *)
(* the code that is to implement them: "Token Refresh Protocol" (Auth      *)
(* against AuthPromise) and "Message Deduplication" (Dedup against         *)
(* DedupPromise).  They have no state in common, so a behaviour is one of  *)
(* the two.                                                                *)
(***************************************************************************)
EXTENDS Auth, Dedup

VARIABLE chapter   \* which one: fixed

PromisesInit ==
    /\ chapter \in {"tokens", "dedup"}
    /\ Init /\ TrackerInit
    /\ chapter = "dedup" => sdk = "go" /\ ~access /\ ~refresh

PromisesNext ==
    /\ chapter' = chapter
    /\ \/ chapter = "tokens" /\ Next /\ UNCHANGED trackerVars
       \/ chapter = "dedup" /\ TrackerNext /\ UNCHANGED vars

PromisesSpec ==
    /\ PromisesInit /\ [][PromisesNext]_<<chapter, vars, trackerVars>>
    /\ Fairness
=============================================================================
