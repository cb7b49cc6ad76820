----------------------------- MODULE WriteMachine -----------------------------
(***************************************************************************)
(* The machine that executes a program of WriteSteps, one step of          *)
(* execute() at a time, with every reply the BMC may give.                 *)
(*                                                                         *)
(* A command runs with the transport, the reboot() and the job semantics   *)
(* of the manager that --vendor selects.                                   *)
(***************************************************************************)
EXTENDS WriteSteps

VARIABLES
    command,  \* the command
    options,  \* the options given
    todo,     \* the steps that remain; a "return" step ends a called command
    answer,   \* what the last request, or the last command called, came to
    fault,    \* the CommandResult that the running command will return is an error
    taken,    \* the requests that the BMC has carried out or accepted
    refused,  \* the requests that it has not
    outcome   \* what the command came to, Nothing as long as it runs

directVars == <<command, manager, options, todo, answer, fault, taken, refused, outcome>>

-----------------------------------------------------------------------------
\* The calls in progress, by the place of their return; the first is innermost.
Frames(heeds) == {i \in DOMAIN todo : todo[i].do = "return" /\ todo[i].heed \in heeds}
Innermost(frames) == CHOOSE i \in frames : \A j \in frames : i <= j

\* An exception leaves every call, up to one that catches it if it is of a kind
\* that is named there; the other endings are those of the innermost call.
Landings(ending) ==
    IF ending = "raised" THEN {Frames({"catch"}), {}} ELSE {Frames({"report", "ignore", "catch"})}

End(ending) ==
    \E frames \in Landings(ending) :
       LET bad == ending \in {"raised", "failed"} \/ (ending = "ended" /\ fault)
       IN IF frames # {}
          THEN /\ todo' = SubSeq(todo, Innermost(frames), Len(todo))
               /\ fault' = bad
               /\ UNCHANGED outcome
          ELSE /\ todo' = <<>>
               /\ outcome' = IF bad /\ ending # "raised" THEN "failed" ELSE ending
               /\ UNCHANGED fault

\* The next step of the program is one of this kind.
At(do) == outcome = Nothing /\ todo # <<>> /\ Head(todo).do = do

GoOn(steps) == todo' = steps \o Tail(todo) /\ UNCHANGED <<fault, outcome>>

Static == UNCHANGED <<command, manager, options>>

\* A read or a check that ends the command, or does not.
StopEarly ==
    /\ At("might")
    /\ \E ending \in Head(todo).when : End(ending)
    /\ Static /\ UNCHANGED <<answer, taken, refused>>

PassCheck ==
    /\ At("might")
    /\ GoOn(<<>>)
    /\ Static /\ UNCHANGED <<answer, taken, refused>>

Return ==
    /\ At("end")
    /\ \E ending \in Head(todo).when : End(ending)
    /\ Static /\ UNCHANGED <<answer, taken, refused>>

HandOnError ==
    /\ At("return_if_error")
    /\ IF answer = "error" THEN End("failed") ELSE GoOn(<<>>)
    /\ Static /\ UNCHANGED <<answer, taken, refused>>

\* base_patch, base_post, base_delete.
Send ==
    /\ At("write")
    /\ \E reply \in Replies, by \in Head(todo).when :
          LET step == Head(todo)
              came == Answer(by, manager, reply)
          IN /\ IF Success(reply.status)
                THEN taken' = taken \cup {step.what} /\ UNCHANGED refused
                ELSE refused' = refused \cup {step.what} /\ UNCHANGED taken
             /\ answer' = came
             /\ IF came = "raised" THEN End("raised")
                ELSE /\ todo' = Tail(todo)
                     /\ fault' = (fault \/ (came = "error" /\ step.heed = "report"))
                     /\ UNCHANGED outcome
    /\ Static

\* fetch_task follows an accepted request.
FollowTask ==
    /\ At("task")
    /\ \/ answer = "accepted" /\ End("raised")
       \/ GoOn(<<>>)
    /\ Static /\ UNCHANGED <<answer, taken, refused>>

Branch ==
    /\ At("after") \/ At("by")
    /\ LET step == Head(todo)
           chosen == IF step.do = "after" THEN answer ELSE manager
       IN GoOn(IF chosen \in step.when THEN step.steps ELSE <<>>)
    /\ Static /\ UNCHANGED <<answer, taken, refused>>

TakeOrSkip ==
    /\ At("maybe")
    /\ GoOn(Head(todo).steps) \/ GoOn(<<>>)
    /\ Static /\ UNCHANGED <<answer, taken, refused>>

\* sync_invoke and reboot(): the fault of the caller waits in the return step.
EnterCall ==
    /\ At("call") \/ At("reboot")
    /\ LET step == Head(todo)
           steps == IF step.do = "call" THEN step.steps ELSE reboot(manager)
           back == [Step("return", Nothing, {}, <<>>, step.heed) EXCEPT !.fault = fault]
       IN todo' = steps \o <<back>> \o Tail(todo)
    /\ fault' = FALSE
    /\ Static /\ UNCHANGED <<answer, taken, refused, outcome>>

LeaveCall ==
    /\ At("return")
    /\ answer' = IF fault THEN "error" ELSE "ok"
    /\ fault' = (Head(todo).fault \/ (fault /\ Head(todo).heed # "ignore"))
    /\ todo' = Tail(todo)
    /\ Static /\ UNCHANGED <<taken, refused, outcome>>

LeaveCommand ==
    /\ outcome = Nothing /\ todo = <<>>
    /\ End("ended")
    /\ Static /\ UNCHANGED <<answer, taken, refused>>

DirectNext ==
    \/ StopEarly
    \/ PassCheck
    \/ Return
    \/ HandOnError
    \/ Send
    \/ FollowTask
    \/ Branch
    \/ TakeOrSkip
    \/ EnterCall
    \/ LeaveCall
    \/ LeaveCommand

\* The requests that have gone out.
Sent == taken \cup refused
=============================================================================
