--------------------------------- MODULE Audit ---------------------------------
(***************************************************************************)
(* The audit plugin of the master agent (snmpAuditPlugin.c): what the log  *)
(* says about the requests the agent has served.                           *)
(*                                                                         *)
(* The agent calls the plugin at three points: once when it has checked    *)
(* who sends a request (audit_callback_acm_check_initial), for each        *)
(* variable it checks write access to (audit_callback_acm_check), and in   *)
(* the handler chain of the trees the plugin is injected into, once for    *)
(* every batch of the request's variables that meets the chain             *)
(* (audit_log_handler).  The agent is one thread, but a request that waits *)
(* for a subagent is suspended and others are served meanwhile, so that    *)
(* the handler calls of several requests interleave.                       *)
(*                                                                         *)
(* One log record stands for the lines one call writes together: a header  *)
(* with the list of the request's variables, or the results of a batch.    *)
(***************************************************************************)
EXTENDS Naturals, Sequences

CONSTANTS
  Request,    \* the requests
  Reqid,      \* Reqid[r]: the number its manager gave the request
  Transid,    \* Transid[r]: the number the agent gave it
  Command,    \* Command[r]: what it asks for
  Refused,    \* the requests whose sender is not authorized
  Outside,    \* Outside[r]: it names variables "some", "all" or "none" of
              \* which are outside every registered tree
  MaxBatch    \* bound: how many batches a request is handled in, and how
              \* many variables a SET names

\* The agent counts the requests that come, from one.
ASSUME AuditAssumption ==
  /\ Reqid \in [Request -> Nat]
  /\ Transid \in [Request -> Nat \ {0}]
  /\ \A r, s \in Request : Transid[r] = Transid[s] => r = s
  /\ Command \in [Request -> {"GET", "GETNEXT", "GETBULK", "SET"}]
  /\ Refused \subseteq Request
  /\ Outside \in [Request -> {"none", "some", "all"}]
  /\ MaxBatch \in Nat \ {0}

VARIABLES
  phase,    \* phase[r]: how far the agent is with the request
  batch,    \* batch[r]: the variables of a SET it has checked, then the
            \* batches it has handled
  req,      \* the static variable req of audit_log_handler
  log       \* the records written, oldest first

vars == <<phase, batch, req, log>>

Kind == {"refused", "outside", "write", "header", "results"}

\* A record and the request it was written for; the log itself shows only the
\* kind and the reqid.
Entry(kind, r) == [kind |-> kind, reqid |-> Reqid[r], of |-> r]

Init ==
  /\ phase = [r \in Request |-> "sent"]
  /\ batch = [r \in Request |-> 0]
  /\ req = [transid |-> 0, reqid |-> 0]
  /\ log = << >>

Becomes(r, p) == phase' = [phase EXCEPT ![r] = p]
-----------------------------------------------------------------------------
(* The checks.                                                             *)

\* log_invalid_oid_trees is called for these.
IsNext(r) == Command[r] \in {"GETNEXT", "GETBULK"}

\* A slip: GETBULK is forgotten.
LogsTreesOfNext(r) == Command[r] = "GETNEXT" /\ Outside[r] # "none"

LogsTrees(r) == IsNext(r) /\ Outside[r] # "none"

InitialRecords(r) ==
  IF r \in Refused THEN <<Entry("refused", r)>>
  ELSE IF LogsTrees(r) THEN <<Entry("outside", r)>>
  ELSE << >>

\* audit_callback_acm_check_initial, called for the requests as they come.  The
\* agent drops a refused request, and has nothing to handle for one whose
\* variables are all outside.
AcmCheckInitial(r) ==
  /\ phase[r] = "sent"
  /\ \A s \in Request : phase[s] = "sent" => Transid[r] <= Transid[s]
  /\ log' = log \o InitialRecords(r)
  /\ Becomes(r, IF r \in Refused \/ Outside[r] = "all" THEN "done"
                ELSE IF Command[r] = "SET" THEN "check" ELSE "handle")
  /\ UNCHANGED <<batch, req>>

\* audit_callback_acm_check: a record for every variable of a SET, granted or
\* not.  When one is refused nothing of the request is handled.
AcmCheck(r) ==
  /\ phase[r] = "check"
  /\ batch[r] < MaxBatch
  /\ log' = Append(log, Entry("write", r))
  /\ \/ /\ batch' = [batch EXCEPT ![r] = @ + 1]
        /\ UNCHANGED phase
     \/ /\ batch' = [batch EXCEPT ![r] = 0]
        /\ \E p \in {"handle", "done"} : Becomes(r, p)
  /\ UNCHANGED req
-----------------------------------------------------------------------------
(* The handler.                                                            *)

\* A slip: managers are expected to count their requests.
ReqidGrows(r) == req.reqid < Reqid[r]

NewTransaction(r) == req.transid # Transid[r] /\ req.reqid # Reqid[r]

\* A slip: the record of the last request does not survive the call.
NotRecorded(r) == [transid |-> 0, reqid |-> 0]

Recorded(r) == [transid |-> Transid[r], reqid |-> Reqid[r]]

HeaderRecords(r) == IF NewTransaction(r) THEN <<Entry("header", r)>> ELSE << >>

\* log_results: a record for the variables that have a result by now, if any.
ResultRecords(r) == {<< >>, <<Entry("results", r)>>}

\* audit_log_handler, with the handlers after it, which leave results for some
\* variables of the batch, or for none (all wait for a subagent).  Afterwards
\* the request is done, or more batches follow: variables of another tree, or
\* a GETNEXT that found nothing in this one.
HandleBatch(r) ==
  /\ phase[r] = "handle"
  /\ batch[r] < MaxBatch
  /\ batch' = [batch EXCEPT ![r] = @ + 1]
  /\ req' = IF NewTransaction(r) THEN Recorded(r) ELSE req
  /\ \E results \in ResultRecords(r) :
       log' = log \o HeaderRecords(r) \o results
  /\ UNCHANGED phase

\* The agent sends the response.
Respond(r) ==
  /\ phase[r] = "handle"
  /\ batch[r] > 0
  /\ Becomes(r, "done")
  /\ UNCHANGED <<batch, req, log>>
-----------------------------------------------------------------------------
Next ==
  \E r \in Request :
    AcmCheckInitial(r) \/ AcmCheck(r) \/ HandleBatch(r) \/ Respond(r)

Spec == Init /\ [][Next]_vars
-----------------------------------------------------------------------------
(* Properties.                                                             *)

Phase == {"sent", "check", "handle", "done"}

TypeOK ==
  /\ phase \in [Request -> Phase]
  /\ batch \in [Request -> 0 .. MaxBatch]
  /\ req \in [transid : Nat, reqid : Nat]
  /\ log \in Seq([kind : Kind, reqid : Nat, of : Request])

Headers == {i \in DOMAIN log : log[i].kind = "header"}

\* However the handler calls of several requests interleave, and whatever
\* numbers their managers give them: results are never logged before a header
\* with the same reqid, except under reqid 0.
ResultsAttributed ==
  \A i \in DOMAIN log :
    log[i].kind = "results" /\ log[i].reqid # 0 =>
      \E h \in Headers : h < i /\ log[h].reqid = log[i].reqid

\* The header of a request is repeated only when another request's header has
\* come between: the batches of a request handled in a row log it once.
HeaderRepeatsOnlyAfterAnother ==
  \A i, j \in Headers :
    i < j /\ log[i].of = log[j].of =>
      \E k \in Headers : i < k /\ k < j /\ log[k].of # log[i].of

\* A request with a reqid of its own, not zero, has left a trace when it is
\* done, whether it was refused, served or had nothing to be served; except a
\* GET or SET of unregistered variables only.
EveryRequestAudited ==
  \A r \in Request :
    /\ phase[r] = "done"
    /\ Reqid[r] # 0 /\ \A s \in Request : Reqid[s] = Reqid[r] => s = r
    /\ IsNext(r) \/ Outside[r] # "all"
    => \E i \in DOMAIN log : log[i].of = r

\* "logs 'normal' requests: everything except SET operations, authentication
\* errors and GETBULK/GETNEXT for invalid OIDs" (snmpAuditPlugin.c:358-359): a
\* request that has met the handler has its header in the log.
NormalRequestsLogged ==
  \A r \in Request :
    /\ phase[r] = "handle" /\ batch[r] > 0
    /\ Command[r] # "SET" /\ ~LogsTrees(r)
    => \E h \in Headers : log[h].of = r
=============================================================================
