----------------------------- MODULE UpdateCheck -----------------------------
(***************************************************************************)
(* The check for a newer release (platform/update_check.c) and the About   *)
(* dialog that starts and shows it (ui/about_dialog.c).  A detached thread *)
(* runs curl, reads the static reply buffer and the static s_current, and  *)
(* writes the result under a mutex; the user interface thread writes       *)
(* s_current and creates the thread outside of it.                         *)
(*                                                                         *)
(* A worker's step ends at the next access to shared memory.  A version is *)
(* a number, its order that of version_is_newer; curl and GitHub answer    *)
(* with any of them, with no tag, or not at all.  MaxChecks bounds the     *)
(* checks.                                                                 *)
(***************************************************************************)
EXTENDS Integers, Sequences, FiniteSets

CONSTANTS
    MaxChecks,  \* bound: threads ever created
    Releases,   \* the tags the releases page may name
    AppVersion  \* APP_VERSION

ASSUME UpdateAssumption == MaxChecks \in Nat /\ Releases \subseteq Nat /\ AppVersion \in Nat

VARIABLES
    about_dialog_open, about_was_open,  \* s_was_open
    result,         \* s_result: [status, latest]
    s_current,      \* 0 = not written yet
    starter,        \* the user interface thread in update_check_start: "out" | "copy" | "create"
    reply,          \* the static buffer: what the last worker to read curl wrote, and for whom
    worker          \* thread -> "popen" | "read" | "reply" | "gone"

updateVars == <<about_dialog_open, about_was_open, result, s_current, starter, reply, worker>>

UpdateInit ==
    /\ about_dialog_open = FALSE /\ about_was_open = FALSE
    /\ result = [status |-> "idle", latest |-> 0]
    /\ s_current = 0 /\ starter = "out" /\ reply = [of |-> 0, tag |-> 0] /\ worker = <<>>

-----------------------------------------------------------------------------
(* The user interface thread *)

\* Menu, About.
OpenAbout ==
    /\ starter = "out" /\ ~about_dialog_open /\ about_dialog_open' = TRUE
    /\ UNCHANGED <<about_was_open, result, s_current, starter, reply, worker>>

\* A frame: clicks count from the second frame of an open dialog on.
AboutFrame ==
    /\ starter = "out" /\ about_was_open # about_dialog_open
    /\ about_was_open' = about_dialog_open
    /\ UNCHANGED <<about_dialog_open, result, s_current, starter, reply, worker>>

\* Close button, a click beside the dialog or Escape: a check goes on without it.
CloseAbout ==
    /\ starter = "out" /\ about_dialog_open /\ about_was_open
    /\ about_dialog_open' = FALSE
    /\ UNCHANGED <<about_was_open, result, s_current, starter, reply, worker>>

Mutant_Busy == FALSE

Busy == result.status = "checking"

\* The first critical section of update_check_start.
update_check_start ==
    /\ starter = "out" /\ about_dialog_open /\ about_was_open /\ ~Busy
    /\ Len(worker) < MaxChecks
    /\ result' = [status |-> "checking", latest |-> 0] /\ starter' = "copy"
    /\ UNCHANGED <<about_dialog_open, about_was_open, s_current, reply, worker>>

CopyCurrent ==
    /\ starter = "copy" /\ s_current' = AppVersion /\ starter' = "create"
    /\ UNCHANGED <<about_dialog_open, about_was_open, result, reply, worker>>

\* set_result(UPDATE_FAILED, ...).
Failed == [status |-> "failed", latest |-> 0]

CreateWorker ==
    /\ starter = "create" /\ starter' = "out"
    /\ worker' = Append(worker, "popen")
    /\ UNCHANGED <<about_dialog_open, about_was_open, result, s_current, reply>>

CreateFails ==
    /\ starter = "create" /\ starter' = "out" /\ result' = Failed
    /\ UNCHANGED <<about_dialog_open, about_was_open, s_current, reply, worker>>

-----------------------------------------------------------------------------
(* check_worker *)

\* popen failed, curl failed, or the reply has no tag.
WorkerFails(w) ==
    /\ worker[w] \in {"popen", "read", "reply"}
    /\ worker' = [worker EXCEPT ![w] = "gone"] /\ result' = Failed
    /\ UNCHANGED <<about_dialog_open, about_was_open, s_current, starter, reply>>

RunCurl(w) ==
    /\ worker[w] = "popen" /\ worker' = [worker EXCEPT ![w] = "read"]
    /\ UNCHANGED <<about_dialog_open, about_was_open, result, s_current, starter, reply>>

ReadReply(w, tag) ==
    /\ worker[w] = "read" /\ worker' = [worker EXCEPT ![w] = "reply"]
    /\ reply' = [of |-> w, tag |-> tag]
    /\ UNCHANGED <<about_dialog_open, about_was_open, result, s_current, starter>>

version_is_newer(latest, current) == latest > current

SetResult(w) ==
    /\ worker[w] = "reply" /\ worker' = [worker EXCEPT ![w] = "gone"]
    /\ result' = [status |-> IF version_is_newer(reply.tag, s_current)
                             THEN "available" ELSE "up_to_date", latest |-> reply.tag]
    /\ UNCHANGED <<about_dialog_open, about_was_open, s_current, starter, reply>>

WorkerStep(w) ==
    \/ WorkerFails(w) \/ RunCurl(w) \/ SetResult(w)
    \/ \E tag \in Releases : ReadReply(w, tag)

UpdateNext ==
    \/ OpenAbout \/ AboutFrame \/ CloseAbout
    \/ update_check_start \/ CopyCurrent \/ CreateWorker \/ CreateFails
    \/ \E w \in DOMAIN worker : WorkerStep(w)

UpdateSpec == UpdateInit /\ [][UpdateNext]_updateVars

-----------------------------------------------------------------------------
\* The buffers no mutex guards are never used by two threads at once: while a check is being
\* started or runs no other one is, so that nobody writes s_current or reply under a worker
\* that reads them; and the dialog says "Checking..." exactly then, so that a check can always
\* be started again once one ended, in whichever way (update_check.c:52).
OneCheckAtATime ==
    LET running == {w \in DOMAIN worker : worker[w] # "gone"}
    IN  /\ (result.status = "checking") <=> (starter # "out" \/ running # {})
        /\ Cardinality(running) <= (IF starter = "out" THEN 1 ELSE 0)
        /\ \A w \in running : worker[w] = "reply" => reply.of = w
=============================================================================
