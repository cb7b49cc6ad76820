------------------------------ MODULE Transport -------------------------------
(***************************************************************************)
(* What a command learns of a request that it sends: base_post, base_patch *)
(* and base_delete of the manager that --vendor selects, from the reply of *)
(* the BMC to the CommandResult, or to the exception.                      *)
(***************************************************************************)
EXTENDS Integers

VARIABLE manager  \* the class that the command was composed with

Managers == {"RedfishManager", "IDracManager"}

-----------------------------------------------------------------------------
(* A reply has a status (0 if the connection fails), and may carry a       *)
(* Location header and, on a Dell, the id of a job in its body.            *)

Statuses == {0, 200, 201, 202, 204, 400, 401, 403, 404, 405, 409, 500, 503}

Success(status) == status \in 200 .. 299

\* The Location of what was created or accepted comes with these two only.
Replies == {r \in [status : Statuses, location : BOOLEAN, job : BOOLEAN] :
              (r.location => r.status \in {201, 202}) /\ (r.job => r.status = 202)}

\* RedfishManager.default_error_handler: 201 is a success like the others.
default_error_handler(status) ==
    IF status = 202 THEN "accepted" ELSE IF Success(status) THEN "ok" ELSE "raised"

\* Faulty variant: the error that is returned instead of thrown is lost.
RedfishManager_respond_lenient(r) ==
    IF r.status \in {405, 409} THEN "ok" ELSE default_error_handler(r.status)

\* RedfishManager.base_request_respond, with default_post_success and the like.
RedfishManager_respond(r) ==
    IF r.status \in {405, 409} THEN "error" ELSE default_error_handler(r.status)

\* IDracManager.read_api_respond: any Location means a job.
read_api_respond(r) ==
    IF r.location \/ r.status = 202 THEN "accepted"
    ELSE IF r.status = 201 THEN "created"
    ELSE IF Success(r.status) THEN "ok"
    ELSE IF r.status \in 300 .. 499 \ {400, 401, 403, 404} THEN "error"
    ELSE "raised"

\* IDracManager.base_request_respond: a job without an id throws, and so does
\* api_success_msg for what was created without a Location, which its map of
\* answers does not have.
IDracManager_respond(r) ==
    CASE read_api_respond(r) = "accepted" /\ ~r.location /\ ~r.job -> "raised"
      [] read_api_respond(r) = "created" -> "raised"
      [] OTHER -> read_api_respond(r)

\* base_request_respond of the manager.
base_request_respond(m, r) ==
    IF m = "RedfishManager" THEN RedfishManager_respond(r) ELSE IDracManager_respond(r)
=============================================================================
