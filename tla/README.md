# TLA+ models of the SNMP application

This directory models the running parts of `snmp-armada-app`: the containers
that make a StarlingX system's alarms visible over SNMP. Paths below are
relative to the repository; `D` stands for `stx-snmp-helm/docker`.

- [The system](#the-system)
- [The modules](#the-modules)
- [The runs](#the-runs)
- [The proofs](#the-proofs)
- [What the models say about the code](#what-the-models-say-about-the-code)
- [What is not modelled](#what-is-not-modelled)
- [Plan](#plan)

## The system

One pod runs three containers, and the fault manager (FM) of the platform, which
is not part of this repository, talks to two of them.

```
   SNMP managers ── UDP 161 ──► snmpd  (master agent, audit plugin)
                                  ▲  ▲
                       AgentX 705 │  │ AgentX 705
                                  │  │
     FM database ──► fm-subagent ─┘  └─ trap-subagent ◄── TCP 162 ── FM
```

| component | state it keeps | operations | hard behaviour | what makes it correct |
|---|---|---|---|---|
| trap server `D/stx-fm-trap-subagent/src/wrsAlarmMIBServer.c` | listener, retry budget, one connection, one partial message, the call stack | accept, read a length, read a body, hand it over, recall on an error | clients that stall, hang up, reset or split their bytes anywhere; recursion used as a retry loop | one client at a time, nothing leaks, only whole messages are relayed, gives up exactly when its budget is gone |
| trap construction `.../wrsAlarmMIBTrap.c` | none | one JSON message to one notification | nine copies of the same code, each slightly different | the notification and its varbinds are the MIB's, with the values of the message |
| trap subagent main `.../wrsAlarmMIBSubagent.c` | `keep_running`, `server_info` | start, handle SIGTERM/SIGINT, stop | the signal arrives while the server blocks | it ends when asked to, and when the server has given up |
| active alarm table `D/stx-fm-subagent/src/snmpActiveAlarms.c` | the alarm list, its count, two time stamps, a row buffer | GET and GETNEXT of a row, reload | three caches of different age, a database that fails in the middle of a load, a clock that is set | rows are fresh; answers become exact again after a disturbance; requests end |
| event log table `.../snmpEventLogs.c` | the same | the same | the same, and a session shared with the alarm table | the same |
| database session `.../snmpAgentPlugin.c` | `alm_handle` | create, renew, destroy | renewal destroys first and may then fail | a session in use has a database behind it |
| fm-subagent main `.../snmpSubAgent.c` | `keep_running` | main loop, stop | none of its own: one thread | ends when asked to |
| audit plugin `D/stx-snmp/src/snmpAuditPlugin.c` | the numbers of the last request | log a request, its results, an authorization failure, a write | called many times per request, and for several requests in flight | every request leaves a trace, and results can be told to belong to a header |
| bootstrap `D/*/bootstrap.sh` | a counter | wait for the master agent, run the subagent | races with the other containers | spends all its retries, starts when the master answers, else ends and is started again |
| application lifecycle, helm overrides `python3-k8sapp-snmp/.../lifecycle/lifecycle_snmp.py`, `helm/snmp.py` | none of their own | hooks of apply and remove; chart values | none of their own | the right action per hook |
| chart, manifests, MIBs, packaging | none | | | |

Interaction. FM opens a TCP connection per alarm to the trap server, which calls
`process_json_alarm`, which sends a trap through the AgentX session. The
fm-subagent is called by its AgentX library for each variable of each request
and reads the FM database through one session. All components are sequential;
the concurrency is between them and with the clients, the database, signals and
the clocks.

## The modules

| module | models | |
|---|---|---|
| `TrapRelay` | what the trap server promises, with no sockets, bytes or stack | abstract specification |
| `TrapServer` | `wrsAlarmMIBServer.c`, and `main` of `wrsAlarmMIBSubagent.c` from the signal handlers on | detailed specification, instantiates `TrapRelay` |
| `AlarmTrap` | `wrsAlarmMIBTrap.c` | operators over messages, one step |
| `AlarmTable` | `snmpActiveAlarms.c` with the session of `snmpAgentPlugin.c` | state machine |
| `AlarmWalk` | a manager's walk by GETNEXT over that table, with other managers in between | extends `AlarmTable` |
| `FmSubagent` | `snmpSubAgent.c` from the signal handlers on, `snmpActiveAlarms.c` and `snmpEventLogs.c` on one thread and one session | composes two instances of `AlarmTable`, and implements each |
| `MibTables` | the OIDs and variables of `snmpAgentPlugin.c`, the matching of names and the columns of both tables | operators over requests, one step, compared with the MIB |
| `Audit` | `snmpAuditPlugin.c` | state machine |
| `Pod` | both `bootstrap.sh`, container restarts, the AgentX sessions of both subagents | state machine |
| `MCMib` | a manager's two views of the MIB, what it is sent (`AlarmTrap`) and what it asks for (`MibTables`), in one run | runs the two side by side |
| `MCTrapServer`, `MCAlarmTrap`, `MCAlarmWalk`, `MCFmSubagent`, `MCMibTables`, `MCAudit` | instances for TLC | |
| `TrapServerProofs`, `AlarmTrapProofs`, `AlarmTableProofs`, `AlarmWalkProofs`, `FmSubagentProofs`, `MibTablesProofs`, `AuditProofs`, `PodProofs` | theorems | |

Operators named as slips (`CloseConnLeaks`, `BodyShort`, ...) are the mistakes
the properties are meant to catch; each stands next to the definition it would
replace and nothing else uses it.

### TrapServer

`pc` is the point the thread has reached. `start`, `init` are
`get_server_info` and `init_server`; `call`, `accept`, `length`, `alloc`,
`body`, `check`, `process`, `return` are the parts of
`handle_server_messages`, one action each, with a second action where the part
can fail; `main` and `loop` are `main` after `start_alarm_server` has returned.

*Recursion.* Each error path closes the connection and calls
`handle_server_messages` again. `frames` is the stack of suspended calls: where
each would go on, and its connection. `Return` pops one. Since the function
returns `DEFAULT_ERROR` from both its return statements, a suspended call always
breaks out of its loop; the code that would run with the closed connection after
any other result cannot be reached, and the mutant `HandleResultSuccess` shows
what would happen if it could.

*Clients.* A client is one connection with one message, a length of `MSG_SIZE`
bytes and a body of `Size[c]`. Bytes arrive one at a time between any two steps;
`Recv` is what `recv` may return then: as many of the bytes that have arrived as
were asked for, 0 after the peer closed, an error after a reset (which may
or may not overtake data), or it blocks. A client may hang up either way at any
time. Bodies have at least one byte.

*Kernel.* The accept queue holds one more connection than `BACKLOG`, as Linux
does. A failing `accept` changes nothing in the code and is not a step.

*What `process_json_alarm` does* with a message is abstracted to `Payload`:
a trap, none, or a crash ("fatal": no JSON object, no `operation_type`, or a null
text where one is read, see `AlarmTrap`).

*Signals.* `signal()` installs handlers that restart `accept` and `recv`, so
`Signal` is the assignment to `keep_running` and nothing else.

### AlarmTrap

A message is its `operation_type`, the set of members its `alarm` object has and
those among them that are null; a varbind is a column and where its value came
from, or zero. This is all that the nine functions differ in. Of a null number
`json_object_get_int` makes zero; of a null text `json_object_get_string` makes a
null pointer, whose `strlen` ends the process (`StrlenOfNull`): the outcome is
then a crash, as it is for a message without `operation_type`.
`Varbinds` is the list that a function's eleven additions make, in their order.
`Notification` is a reference definition written from the MIB; `AlarmTrapFaithful`
compares every trap with it, those for events too, except for the two values of
an event that `EventTrapFaithful` is about. It assumes that no text among the
notification's objects is null (`TextsGiven`); a null number, and a null text that
the notification has no place for, must do no harm.

### AlarmTable

`pc` follows one request: `count` and `lookup` are the two halves of
`header_alarmEntry` around `Active_Alarm_Get_Count`; `init` and `query` are
`Alarm_Scan_Init`, which both callers run (`caller`); `walk` is the loop of the
caller over the list. The variable that `Alarm_Scan_NextAlarm` calls `alarmaddr`
is always the head of the list where a walk begins, so the walk is one step.

*Time.* Ages replace the time stamps: `loadAge` on the monotonic clock, up to
`MINLOADFREQ`; `scanAge` on the wall clock, from `-ClockBack` to `COUNT_TTL + 1`.
The code does not tell larger ages apart. A `Tick` is the beginning of a second
on both clocks; the clocks are taken to change seconds together.

*Database.* Alarms come and go while it is up. When it goes down, a session in
use breaks; it stays broken until it is renewed, by a query of this table that
fails or by the other table (`SessionRenewed`). `renewAlarmSession` destroys
the session first: with the database down what is left is a handle to a
destroyed session, whose use either fails or crashes the process, both of which
are modelled. A query returns the alarms in any order. At the start, the process
exits and is started again until it gets a session.

*History.* `goneFor`, `recent`, `calmFor` and `calmRequest` only serve the
properties. A *disturbance* is an alarm that comes or goes, the database being
down, a failed allocation, or the wall clock being set.

### AlarmWalk

The walker asks for the row after the last it got, until there is none. `seen`
is what it got; `quiet` says that the walk began in calm and stayed in it,
`changed` that a load has put another list in place since its first row. Every
other step of `AlarmTable` may come in between, other managers' requests and the
loads they cause included. `WalkCounts` holds across such loads. `WalkComplete` is
about walks that no load disturbs: a load passes through the empty list, so any
load of a list that is not empty counts as a change, even if it brings the same
rows back in the same order.

### FmSubagent

`A` and `E` are instances of `AlarmTable` over disjoint variables, except
`dbUp` and `handle`: the rows, caches, ages and reload limits are each table's
own, the session is shared. Events of the world that both see (`DbDown`, `Tick`,
`ClockStep`) are joint steps. A table's step must leave the other as it is or be
one of its `SessionRenewed` steps, which is a conclusion (`AlarmTableKept`), not
part of the definition: `AlarmStep` says only that the other table's own
variables stay. `main` is where the program is: at the test of `keep_running`
or inside `agent_check_and_process`. A table is entered, and goes on, only while
the other is idle (`OtherIdle`): that there is one thread is an assumption of the
model, not a result of it. What the refinements rest on besides is what a renewal
leaves behind: with the database up a session that works, else one that is known
to be dead, for the other table as for the one that renewed it. A renewal that
takes its success for granted breaks both (their mutant).

### MibTables

A request is a name (an OID), exact or next, and the lengths of the two tables.
`HeaderEntry` is the matching loop of `header_alarmEntry` and
`header_eventLogEntry`; `VarAlarms` and `VarEvents` are the switches. A value is
the member of FM's record that the column shows and the form it comes in, with the
type and the access its variable was registered with. `Cut` is the form of a uuid,
whose 36 characters are copied with `strlcpy` into 36 bytes. That the agent library
asks the registered variables in the order of their OIDs is external.

`MibEntry`, `Wire`, `MaxAccess`, `Instances` and `Wanted` are the reference, written
from the MIB: `Unsigned32` has a wire type of its own, and the index objects,
which are not accessible, are no instances. The code differs from it in three
places. Two are findings (`RegisteredAsInMib`): the index objects are registered
as readable, and as signed numbers. `AnswerFaithful` takes such an answer for what
it is, an instance in between, which must not hide or overtake one that the MIB
has: `Asked` on `IndexInstances`. The third is the uuid, which
`AnswerFaithful` allows to be cut by its last character; the MIB only calls it an
"ID identifying the active alarm instance", which 35 characters practically still
are, so no line of the repository is contradicted.

### Audit

A request passes the check of its sender, for a SET the check of its variables,
and then meets the handler in one or more batches. Handler calls of different
requests interleave: the agent is one thread, but a request that waits for a
subagent is suspended. `req` is the static variable that is to recognize the
first call; a log record is its kind, the reqid it shows, and (for the
properties only) the request it was written for. The agent counts the
requests as they come; managers number theirs as they like. Every request that is handled at all is taken to
meet the handler: `snmpd.conf` injects it into the handlers `null` and
`bulk_to_next`, which the agent puts on the roots of the MIB tree and on GETBULK.

### Pod

`pc[c]` is where a subagent's container is: its script probes the master's port
or sleeps, its program starts (`main`) or serves. The program opens its AgentX
session while it starts. If the master ends, open sessions are lost;
`Reconnect` is the library's timer, which only runs in
`agent_check_and_process`, so only for the fm-subagent. An fm-subagent without a
database ends while it starts. Kubernetes starts what has ended. `failed` and
`masterEnded` only serve the properties. A master that answers the probe and
stays is taken to accept the session.

## The runs

| run | instance | states | shows |
|---|---|---|---|
| `trap_server` | 3 clients, bodies of 1 and 2 bytes, length of 2 bytes, 2 calls, one message crashes | 1.8 million | `TypeOK`, `DescriptorInv`, `RelayedComplete`, `DropBudget`, `LengthPatience`, `ConnectionBounded`, `ImplementsRelay` |
| `trap_server_live` | 2 clients, one without an alarm | 32 000 | `Served`, `GivingUpEnds` |
| `trap_server_stop` | the same | violated | `StopHonoured` |
| `mib` | 10 operations, 515 sets of members, 23 sets of null members; 390 names, GET and GETNEXT, tables of 0 to 2 rows | 24 800 | `AlarmTrapFaithful`, `AnswerFaithful` |
| `alarm_trap_event` | events as FM sends them | violated | `EventTrapFaithful` |
| `alarm_table` | 2 alarms, rows 1 to 3, reload limit 1, count kept for less than a second, clock set back by 1, one walker and others | 6.2 million | `TypeOK`, `ServedFresh`, `CalmTableExact`, `WalkCounts`, `WalkComplete` |
| `alarm_table_exists` | 1 alarm | violated | `ServedRowExists` |
| `fm_subagent` | 1 alarm, 1 event log, smallest limits | 412 000 | `AlarmTableKept`, `EventTableKept`, `RequestsBounded`, `StopHonoured`, `RequestsAnswered` |
| `mib_index` | the names, requests and tables of `mib` | violated | `RegisteredAsInMib` |
| `audit` | 5 requests: refused, unregistered, 3 in 2 batches each, two with one reqid | 265 000 | `ResultsAttributed`, `HeaderRepeatsOnlyAfterAnother`, `EveryRequestAudited` |
| `audit_header` | the same | violated | `NormalRequestsLogged` |
| `pod` | 2 subagents, 3 retries | 7 000 | `SessionUnlessMasterEnded`, `RetriesAreSpent`, `SubAgentRecovers`, `TrapAgentRecovers` |

*Bounds.* Two calls of `handle_server_messages` make one recursion that goes
well and one that finds the budget empty; the third client is served after
both, or crashes the server in between. A length of two bytes with
`RETRIES_MESSAGE_SIZE` 1 is the tightest setting the assumption
`MSG_SIZE <= RETRIES_MESSAGE_SIZE + 1` allows (the code has 4 and 20), so that
the cap on `recv` calls is reached by a live client as well as by a dead one.
Two alarms give lists of every length up to two, in both orders; index 3 is
beyond any of them; two queries per load are a failure that is repaired and one
that is not. In `fm_subagent` rows come to one table only when no trace of the
other's is left (`MCNext`); the table without rows loads at every request, since a
count of zero is never kept, and so renews the shared session as often as the
program can. Both tables have the same reload limit there; other limits, and rows
in both tables, are `EventTableRefined`'s and `AlarmTableRefined`'s. The names of
`mib` begin with either table's OID or a part of it and end before, at,
between and after its columns and rows. A message and a request have nothing to do
with each other, so that `mib` takes one of them through its one step while the
other component stands still; both are enumerated in full. Null are, of a message
with all members, each member in turn and all numbers at once. Two batches per request and three handled
requests are what it takes for headers to alternate and for a third request to
repeat a reqid. One retry and none are special
cases of the bootstrap; the properties are per container, so two are enough.
What the instances leave open
is what the theorems close.

*Symmetry.* `alarm_table` permutes the alarms, which no definition tells apart;
it checks invariants and action properties only.

*Deadlock* is checked for the alarm table, the fm-subagent and the pod.
The trap subagent ends, and waits in `accept` when no client is left, `AlarmTrap`
and `MibTables` (`mib`) take one step, and `Audit` ends when every request is done: there
the check is off.

*Fairness.* `TrapServer`: weak fairness of the one server thread, as the
operating system schedules it, and of each client that has begun a message and
not sent all of it: it sends the rest or its connection ends. The code has no
timeout on `recv`, so without the second nobody behind such a client is served;
TCP ends the connection of a client that died, but nothing ends that of one
that is merely silent. `FmSubagent`: weak fairness of the two tables' steps and of
the main program, nothing being assumed of the database, the clocks or the
managers, and strong fairness of `ProcessReturns`: a call of
`agent_check_and_process` handles the packets that were ready when its `select`
returned, and not those that managers go on sending, so requests cannot keep it
from returning for ever. Nor can the lack of requests: a signal that arrives in
the `select` interrupts it. One that arrives between the test of `keep_running`
(`snmpSubAgent.c:193`) and the `select` does not; it is noticed when the next packet
arrives or the AgentX library's own timer (its ping of the master agent) goes
off, which is outside this repository and is what the fairness of
`ProcessReturns` stands for there. `Pod`: weak fairness
of each container's start and program; what ends a container is no part of it,
and the properties say in which case they hold in spite of it.

## The proofs

Theorems hold for every value of the constants that satisfies the module's
named assumption (`TrapServerAssumption`, `MessageAssumption`, `AlarmTableAssumption`,
`FmSubagentAssumption`, `MibTablesAssumption`, `AuditAssumption`, `PodAssumption`).
`NoAnswerAssumption` only says that the model value for "no answer" is not an answer.

*TrapServer* (`TrapServerProofs`). `TypeCorrect`, `NoDescriptorLeaks`,
`OnlyWholeMessages`, `LengthIsPatient`. `DescriptorInv` says which descriptors
are open, but not why closing `connfd` leaves none: the invariant adds that the
connections in the accept queue were never opened and are each there once, that
`connfd` is open while it is read, that the byte counts are within what has
arrived, how many calls are left at every point
(`RetriesInv`) and when the listener is open (`ListenerInv`).
`RelayedComplete` needs that a body that passed the check arrived whole, and
`LengthPatience` that `partialRetries` never exceeds the bytes read unless the
peer has closed. `ConnectionsAreBounded` is the part of liveness that is a safety
property: `StepsLeft` falls with each step of the thread on a connection, from
`RETRIES_MESSAGE_SIZE + 6`, and rises in `accept` only. So no client can
make the server loop on it; what fairness is still needed for is the client
that makes it wait.

*Refinement* (`TrapServerProofs`, `Refinement`). `DropsAreBudgeted` counts: the dropped
connections and the calls still allowed add up to `RETRIES`. `Refinement` maps
each step of the server to a step of `TrapRelay` or to none; `accept` takes,
`Process` finishes, the four error paths drop, the returns do nothing, and the
last of them, the failed start and the crash stop. The budget seen from outside
is `Budget`: the calls to come and the one in progress.

*AlarmTrap* (`AlarmTrapProofs`). `TrapsAreFaithful`. A list of
varbinds is what eleven additions append, each one varbind or none. A lemma says
of one addition what it adds and in which column; the list is then taken
addition by addition: whatever is in it is its column's, nothing that should be is
left out, and its columns come in the order of `AllColumns`, hence none twice.
Each operation's function is compared with its `Notification` once. That the list
has the objects of the notification and no others also shows that the function
meets no null text when those of the notification are given (`NoStrlenOfNull`).

*AlarmTable* (`AlarmTableProofs`). `TypeCorrect`, `FreshRows`, `CalmIsExact`.
Freshness needs that every row of the list is active or has been gone for no
longer than the list is old (`FreshInv`). Exactness compares ages: a wrong list
was disturbed after it was loaded, or is due for a reload (`ListInv`); a wrong
count was disturbed less than `MINLOADFREQ + ClockBack` seconds before it was
taken (`CountInv`), so that a count young enough to be used and wrong was
disturbed less than `Calm` seconds ago; a load whose second query fails was
disturbed while it lasted (`LoadInv`), which is where `retryCount >= 2` is used.
`RequestsAreBounded` counts a request's steps down from `2 * retryCount + 6`: two
loads, one for the count and one for the row, of at most `retryCount` queries each.

*AlarmWalk* (`AlarmWalkProofs`). `WalksCount`, `WalksAreComplete`. Every step of
the walk is a step of the table or stutters, so the table's invariant holds too
and says what a calm request is answered (`CalmRow`, `CalmNoRow`). The walk's own
invariant adds that while it is quiet the database does not change, each of its
requests is calm and asks for row `Len(seen) + 1` (`QuietInv`), and that while
the list stays, the rows seen are its first rows (`SameListInv`).

*FmSubagent* (`FmSubagentProofs`). `AlarmTableRefined` and
`EventTableRefined`: with one table idle, each step of the other is a step of
that table, and for the idle one nothing, a renewal of its session or its end.
`AlarmRowsRight` and `LogRowsRight` then carry `ServedFresh` and
`CalmTableExact` over to both tables: `AlarmTableProofs` is instantiated twice
more, and its theorems apply to what refines `AlarmTable`. In the same way
`RequestsOfBothBounded` bounds a request of either table while the other wears
out the session: the safety part of `RequestsAnswered`.

*MibTables* (`MibTablesProofs`). `AnswersAreFaithful`, `ValuesAreTheMibs`,
`NextIsGreater`. Names are sequences of numbers of any length and
the tables have any number of rows, so TLC's names are a sample. `OidLess` is shown
to be a strict total order (the first place where two names differ decides; that
there is a first is the least-number principle, which the library's theorem on
well-founded relations gives without an induction of this project's own). The
names of instances are ordered as their columns and rows are. The matching loop
of a column answers with the least row that qualifies, or none
(`VarAnswers`), and the agent's search through the registered variables with the
least such column (`FirstAnswers`), which together is the least of all registered
instances (`AnswerIsAsked`). If it is an accessible one it is `Wanted`'s, as they
are among the registered ones; if it is an index object, all that `Wanted` may name
come after it, as no two instances have the same name (`IndexBefore`).
`NextIsGreater` and the order's lemmas are why a walk cannot come back to a row.

*Audit* (`AuditProofs`). `ResultsAreAttributed`, `HeadersRepeatApart`,
`RequestsAreAudited`. The invariant ties `req` to the log: it holds the numbers of
the request of the last header, or zeros if there is none. A call that logs no
header shares a number with that request: the reqid, and then that header has it,
or the transid, and then it is the same request. So a request whose reqid is its
own and not zero has its header in the log once it has met the handler, and has a
record of the checks if it never does (`TraceInv`).

*Pod* (`PodProofs`). `RetriesCounted` needs that the counter is the number of
refused connections, or one less while the script sleeps; `SessionsOnlyLost`
that a session is open only while the master is up, and that a container about to
serve finds it up unless it has ended since.

*Only model-checked:* liveness under fairness (`Served`, `GivingUpEnds`,
`RequestsAnswered`, `SubAgentRecovers`, `TrapAgentRecovers`, `StopHonoured` of the
fm-subagent), which is out of the prover's reach. Of `Served` and
`RequestsAnswered` the theorems on bounded steps are what can be proved: a
server or a table that is scheduled, and not kept waiting by its client,
comes to the end of what it does. Every invariant and every action property of the
passing runs, and every refinement, is a theorem.

## What the models say about the code

1. **SIGTERM and SIGINT do not stop the trap subagent** (`StopHonoured`): the
   handlers clear `keep_running`, which `main` reads only after the server has
   returned, and the server neither reads it nor is interrupted.
2. **An event's trap has two wrong details** (`EventTrapFaithful`): probable
   cause and service-affecting are always sent as 0.
3. **Rows that do not exist are served** (`ServedRowExists`): `var_alarms`
   ignores the error of `Alarm_Scan_By_Index`. With an old count and a
   new list the last row is served under another index; with an empty list the
   row of an earlier request is. `ServedFresh` is what remains true.
4. **Requests are missing from the audit log** (`NormalRequestsLogged`): the
   condition for a new transaction joins its halves with `&&`, so a request that
   has the reqid of the last one recorded gets no header. `ResultsAttributed`
   and `EveryRequestAudited` are what remains true.
5. **The index objects can be read** (`RegisteredAsInMib`): the MIB calls
   `wrsAlarmActiveIndex` and `wrsEventIndex` not-accessible; both are
   registered as readable variables, and a walk meets them before all others.
6. **The index objects have another type** (`RegisteredAsInMib`): the MIB says
   `Unsigned32`, the code registers `ASN_INTEGER`. `AnswerFaithful` is
   what remains true of all other objects.

Things met on the way that no run states: the branch of `main` for a server that
is still there after the loop is dead code; a message without
`operation_type` crashes the server (a null pointer in `strcmp`), which
`TrapRelay` lists among the reasons to stop; the four dropped
connections a lifetime allows before the fifth ends the server are not
replenished by messages served well (`DropBudget`); after a failed start
`stop_alarm_server` closes a number that `init_server` has closed already or
never set; the trap subagent never gets a lost AgentX session back until it is
itself restarted, and takes alarms and sends no traps meanwhile
(`TrapAgentRecovers` says what helps); requests whose batches alternate are
logged with a header each time, not at the first handler call only
(`HeaderRepeatsOnlyAfterAnother` is what holds); UUIDs are copied into a buffer
of 36 bytes and lose the last of their 36 characters (`snmpActiveAlarms.c:109`,
`Cut`); a member of a message whose text is null crashes the server like a missing
`operation_type` (`StrlenOfNull`);
`bootstrap.sh` runs the subagent behind the shell, which as the container's first
process receives SIGTERM and does not pass it on.

## What is not modelled

- Option parsing, daemonizing and library initialization of the two main
  programs: sequential code that runs once before anything else.
- `agent_check_and_process` of the trap subagent: the main loop is entered only
  after `stop_server`, so it never runs.
- Messages of length zero, and the terminating NUL that the body buffer lacks:
  `process_json_alarm` then reads memory that was not written.
- The text of log records (addresses, status words, OIDs cut to a buffer) in the
  audit plugin; the debug option of `bootstrap.sh`, and its defaults for unset
  variables, which `set -u` makes unreachable.
- How a shell that is the container's first process treats a SIGTERM it does not
  forward to the subagent: `FmSubagent` and `TrapServer` begin where the signal
  arrives.
- The response a master agent gives to a trap, and the resources an unread
  AgentX session uses up.
- `lifecycle_snmp.py`: a stateless dispatch of hooks. Which hooks come in which
  order, what a failing one does, and what the secrets and the runtime manifest
  are is decided by the platform's application framework, which is not part of
  this repository; a model would be made of guesses about it.
- `helm/snmp.py`: a conversion of the system record to chart values, without
  state. Chart, manifests, packaging and build have no behaviour.

## Plan

1. **TrapPath**: `TrapServer` over `Pod`'s session: each whole message
   delivered at most once, and exactly once while the session is open, with
   `AlarmTrap`'s messages in the place of `TrapServer`'s payloads.
2. Two tables with rows at once in `FmSubagent`'s run, should a change make the
   tables share more than the session.
3. The options of the two main programs, should they come to change what is
   modelled.
