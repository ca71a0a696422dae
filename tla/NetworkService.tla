--------------------------- MODULE NetworkService ---------------------------
(***************************************************************************)
(* The Wi-Fi station as the firmware runs it (platform/network_service.c). *)
(* Four parties share it.  A receiving task accepts one operation at a     *)
(* time from the session's owner; the worker runs it once the answer has   *)
(* left, and otherwise keeps the stored network connected; Python changes  *)
(* the station at run time through a gate; the event task records what the *)
(* driver reports, later than it happens.                                  *)
(*                                                                         *)
(* A critical section of s_lock, a call of the driver and a write to NVS   *)
(* are one step each, except where two follow each other and nobody else   *)
(* can tell.  The driver is external: its calls may fail, the access point *)
(* does what it likes.  Names, addresses, revisions, operation ids, the    *)
(* limit of reconnects and the access point mode are left out.             *)
(***************************************************************************)
EXTENDS Naturals, Sequences

CONSTANTS
  Profiles,     \* name and password of a network
  NoProfile,
  MaxCommands,  \* bound: operations of the owner and WLAN methods together
  MaxEvents     \* bound: events waiting when the access point acts

ASSUME NetworkAssumption ==
  NoProfile \notin Profiles /\ MaxCommands \in Nat /\ MaxEvents \in Nat

VARIABLES
  radio,         \* the driver: station started, its profile, its link
  events,        \* what the driver has posted to the event task
  net,           \* the flags of the service
  config,        \* s_persisted
  netNvs,        \* the record in NVS
  operation,     \* s_has_operation, s_active_request, s_operation, s_reply_released
  lastOperation, \* s_has_last_operation, s_last_request, s_last_operation
  netWorker,     \* where the worker is, and for whom it connects
  python,        \* where a WLAN method is
  commands,      \* operations and methods so far
  untouched      \* history: no WLAN method since the last operation

netRecords == <<config, netNvs>>
netVars == <<radio, events, net, netRecords, operation, lastOperation, netWorker, python,
             commands, untouched>>

Profile == Profiles \cup {NoProfile}
Record == [profile : Profile, enabled : BOOLEAN]
NoRecord == [profile |-> NoProfile, enabled |-> FALSE]
Configured(record) == record.profile # NoProfile
NetRequest ==
  [kind : {"configure"}, profile : Profiles, enabled : {TRUE}]
    \cup [kind : {"enable"}, profile : {NoProfile}, enabled : BOOLEAN]
    \cup {[kind |-> "forget", profile |-> NoProfile, enabled |-> FALSE]}
NoNetRequest == [kind |-> "none", profile |-> NoProfile, enabled |-> FALSE]
NoOp == [request |-> NoNetRequest, state |-> "none", released |-> FALSE]
NoCall == [pc |-> "idle", call |-> "none"]

(***************************************************************************)
(* The driver.  It posts events in order; esp_event's task takes them one  *)
(* after the other.                                                        *)
(***************************************************************************)
LinkDropped == IF radio.link = "idle" THEN <<>> ELSE <<"disconnected">>

DriverStarts(profile) ==
  /\ radio' = [radio EXCEPT !.on = TRUE, !.profile = profile]
  /\ UNCHANGED events

DriverConnects ==
  /\ radio.on /\ radio.link = "idle" /\ radio.profile # NoProfile
  /\ radio' = [radio EXCEPT !.link = "connecting"]
  /\ UNCHANGED events

DriverUnchanged == UNCHANGED <<radio, events>>

\* esp_wifi_connect has been asked: a new attempt, or ESP_ERR_WIFI_CONN.
DriverAsked == DriverConnects \/ (radio.on /\ radio.link # "idle" /\ DriverUnchanged)

DriverDisconnects(profile) ==
  /\ radio' = [radio EXCEPT !.link = "idle", !.profile = profile]
  /\ events' = events \o LinkDropped

DriverStops(profile) ==
  /\ radio' = [on |-> FALSE, profile |-> profile, link |-> "idle"]
  /\ events' = events \o LinkDropped \o IF radio.on THEN <<"stopped">> ELSE <<>>

AccessPoint(from, to, event) ==
  /\ Len(events) < MaxEvents
  /\ radio.link \in from
  /\ radio' = [radio EXCEPT !.link = to]
  /\ events' = Append(events, event)
  /\ UNCHANGED <<net, netRecords, operation, lastOperation, netWorker, python, commands,
                 untouched>>

AccessPointActs ==
  \/ AccessPoint({"connecting"}, "online", "got ip")
  \/ AccessPoint({"online"}, "connecting", "lost ip")
  \/ AccessPoint({"connecting", "online"}, "idle", "disconnected")

(***************************************************************************)
(* network_wifi_event, network_ip_event                                    *)
(***************************************************************************)
\* s_retry_at_us lies ahead of the clock when "waiting" is set.
Down(flags) == [flags EXCEPT !.connected = FALSE, !.inProgress = FALSE, !.address = FALSE]

HandleEvent ==
  /\ events # <<>>
  /\ events' = Tail(events)
  /\ net' = CASE Head(events) = "stopped" -> Down(net)
              [] Head(events) = "disconnected" ->
                   [Down(net) EXCEPT !.waiting = @ \/ net.requested \/ config.enabled]
              [] Head(events) = "got ip" ->
                   [net EXCEPT !.connected = TRUE, !.address = TRUE, !.inProgress = FALSE,
                               !.waiting = FALSE]
              [] Head(events) = "lost ip" -> [net EXCEPT !.connected = FALSE, !.address = FALSE]
              [] OTHER -> net
  /\ UNCHANGED <<radio, netRecords, operation, lastOperation, netWorker, python, commands,
                 untouched>>

\* The deadline of the reconnect timer has passed.
RetryDue ==
  /\ net.waiting
  /\ net' = [net EXCEPT !.waiting = FALSE]
  /\ UNCHANGED <<radio, events, netRecords, operation, lastOperation, netWorker, python,
                 commands, untouched>>

(***************************************************************************)
(* Operations of the session's owner.                                      *)
(***************************************************************************)
\* esp_vision_network_rpc_handle: a repeated request is answered from the record of the
\* operation, any other while one is active is refused; neither changes anything.
Submit(request) ==
  /\ commands < MaxCommands
  /\ commands' = commands + 1
  /\ ~net.mutating
  /\ operation = NoOp
  /\ ~(request.kind = "enable" /\ request.enabled /\ ~Configured(config))
  /\ operation' = [request |-> request, state |-> "queued", released |-> FALSE]
  /\ UNCHANGED <<radio, events, net, netRecords, lastOperation, netWorker, python, untouched>>

\* esp_vision_network_rpc_response_sent: the answer has left, or a second has passed.
Release ==
  /\ operation.state = "queued" /\ ~operation.released
  /\ operation' = [operation EXCEPT !.released = TRUE]
  /\ UNCHANGED <<radio, events, net, netRecords, lastOperation, netWorker, python, commands,
                 untouched>>

(***************************************************************************)
(* The worker.                                                             *)
(***************************************************************************)
AtStep(pc) == netWorker.pc = pc
Go(pc) == netWorker' = [pc |-> pc, for |-> "none"]
KeepParties == UNCHANGED <<lastOperation, python, commands, untouched>>
KeepAllBut == UNCHANGED <<netRecords, operation>> /\ KeepParties

Wanted == IF net.controlled THEN net.requested ELSE Configured(config) /\ config.enabled
MayConnect ==
  /\ operation = NoOp /\ ~net.mutating
  /\ ~net.inProgress /\ ~net.connected

\* schedule_retry
RetryScheduled ==
  [net EXCEPT !.inProgress = FALSE, !.connected = FALSE, !.address = FALSE, !.waiting = TRUE]

\* disconnect_sta, before the call of the driver.
Unrequested == [net EXCEPT !.requested = FALSE, !.inProgress = FALSE, !.waiting = FALSE]

\* complete_operation
Complete(succeeded, flags) ==
  /\ lastOperation' = [request |-> operation.request, succeeded |-> succeeded]
  /\ operation' = NoOp
  /\ net' = [flags EXCEPT !.mutating = FALSE]
  /\ untouched' = TRUE
  /\ Go("loop")
  /\ UNCHANGED <<python, commands>>

\* persist_record: a write that fails may have been written.
PersistFails(record) == netNvs' \in {netNvs, record} /\ UNCHANGED config

(***************************************************************************)
(* connect_record: for the start, a configure and its rollback.            *)
(***************************************************************************)
ConnectFor(whom) == netWorker' = [pc |-> "prepare", for |-> whom]
Onward(pc) == netWorker' = [netWorker EXCEPT !.pc = pc]

Candidate == [profile |-> operation.request.profile, enabled |-> TRUE]
TargetRecord == IF netWorker.for = "configure" THEN Candidate ELSE config

ConnectFailed == IF netWorker.for = "configure" THEN Go("rollback") ELSE Onward("retry")

\* ensure_sta_mode, esp_wifi_set_config and the critical section after them.
ConnectPrepare ==
  /\ AtStep("prepare")
  /\ \/ /\ DriverStarts(TargetRecord.profile)
        /\ net' = [net EXCEPT !.requested = TRUE, !.inProgress = TRUE, !.waiting = FALSE,
                              !.address = FALSE]
        /\ Onward("connect")
     \/ /\ DriverStarts(radio.profile) \/ DriverUnchanged
        /\ UNCHANGED net
        /\ ConnectFailed
  /\ KeepAllBut

ConnectCall ==
  /\ AtStep("connect")
  /\ \/ DriverAsked /\ Onward("wait") /\ UNCHANGED net
     \/ DriverUnchanged /\ ConnectFailed /\ net' = [net EXCEPT !.inProgress = FALSE]
  /\ KeepAllBut

\* Mutant of ConnectLost: the wait ends with the attempt, and with nothing else.
MConnectLost ==
  /\ AtStep("wait")
  /\ ~(net.connected /\ net.address) /\ ~net.inProgress
  /\ ConnectFailed
  /\ UNCHANGED net
  /\ DriverUnchanged
  /\ KeepAllBut

\* wait_for_ip: the link is lost, an operation interrupts the start, or 30 s have passed.
ConnectLost ==
  /\ AtStep("wait")
  /\ ~(net.connected /\ net.address)
  /\ ConnectFailed
  /\ UNCHANGED net
  /\ DriverUnchanged
  /\ KeepAllBut

ConnectDone ==
  /\ AtStep("wait")
  /\ net.connected /\ net.address
  /\ IF netWorker.for = "rollback" THEN Complete(FALSE, net)
     ELSE /\ Go(IF netWorker.for = "start" THEN "loop" ELSE "persist")
          /\ UNCHANGED <<net, operation>> /\ KeepParties
  /\ UNCHANGED netRecords
  /\ DriverUnchanged

ConnectRetry ==
  /\ AtStep("retry")
  /\ IF netWorker.for = "rollback" THEN Complete(FALSE, RetryScheduled)
     ELSE Go("loop") /\ net' = RetryScheduled /\ UNCHANGED operation /\ KeepParties
  /\ UNCHANGED netRecords
  /\ DriverUnchanged

\* network_worker, before its loop.
Start ==
  LET auto == Configured(config) /\ config.enabled /\ MayConnect
  IN /\ AtStep("start")
     /\ net' = IF auto THEN [net EXCEPT !.requested = TRUE, !.inProgress = TRUE,
                                        !.waiting = FALSE]
               ELSE net
     /\ IF auto THEN ConnectFor("start") ELSE Go("loop")
     /\ DriverUnchanged
     /\ KeepAllBut

(***************************************************************************)
(* try_reconnect                                                           *)
(***************************************************************************)
Reconnect ==
  /\ AtStep("loop")
  /\ MayConnect
  /\ Wanted /\ ~net.waiting
  /\ net' = [net EXCEPT !.inProgress = TRUE]
  /\ Go("start station")
  /\ DriverUnchanged
  /\ KeepAllBut

ReconnectStart ==
  /\ AtStep("start station")
  /\ \/ DriverStarts(radio.profile) /\ net' = [net EXCEPT !.waiting = FALSE] /\ Go("reconnect")
     \/ DriverUnchanged /\ UNCHANGED net /\ Go("reschedule")
  /\ KeepAllBut

ReconnectCall ==
  /\ AtStep("reconnect")
  /\ \/ DriverAsked /\ Go("look")
     \/ DriverUnchanged /\ Go("reschedule")
  /\ UNCHANGED net
  /\ KeepAllBut

\* 100 ms later; schedule_retry follows in a critical section of its own.
ReconnectLook ==
  /\ AtStep("look")
  /\ Go(IF net.connected THEN "loop" ELSE "reschedule")
  /\ UNCHANGED net
  /\ DriverUnchanged
  /\ KeepAllBut

ReconnectReschedule ==
  /\ AtStep("reschedule")
  /\ net' = RetryScheduled
  /\ Go("loop")
  /\ DriverUnchanged
  /\ KeepAllBut

(***************************************************************************)
(* run_operation                                                           *)
(***************************************************************************)
RunOperation ==
  /\ AtStep("loop")
  /\ operation.state = "queued" /\ operation.released
  /\ operation' = [operation EXCEPT !.state = "running"]
  /\ Go(operation.request.kind)
  /\ UNCHANGED <<radio, events, net, netRecords>>
  /\ KeepParties

\* run_configure
Configure ==
  /\ AtStep("configure")
  /\ net' = [Unrequested EXCEPT !.controlled = FALSE, !.resume = FALSE]
  /\ DriverDisconnects(radio.profile) \/ DriverUnchanged
  /\ ConnectFor("configure")
  /\ KeepAllBut

PersistCandidate ==
  /\ AtStep("persist")
  /\ \/ /\ netNvs' = Candidate /\ config' = Candidate
        /\ Complete(TRUE, [net EXCEPT !.controlled = FALSE, !.resume = FALSE,
                                      !.requested = TRUE, !.waiting = FALSE])
     \/ /\ PersistFails(Candidate)
        /\ Go("rollback")
        /\ UNCHANGED <<net, operation>> /\ KeepParties
  /\ DriverUnchanged

\* rollback_runtime
Rollback ==
  /\ AtStep("rollback")
  /\ IF config.enabled
       THEN /\ ConnectFor("rollback")
            /\ UNCHANGED <<net, operation>> /\ KeepParties
            /\ DriverUnchanged
       ELSE /\ \E profile \in {config.profile, radio.profile}, on \in {radio.on, TRUE} :
                 \/ /\ radio' = [on |-> on, profile |-> profile, link |-> "idle"]
                    /\ events' = events \o LinkDropped
                 \/ radio' = [radio EXCEPT !.profile = profile, !.on = on] /\ UNCHANGED events
            /\ Complete(FALSE, [Unrequested EXCEPT !.address = FALSE])
  /\ UNCHANGED netRecords

\* run_enable: the record, before the driver.  Its own test that a network is configured
\* never fails: the request was refused, and no other operation has run since.
Enable ==
  LET updated == [config EXCEPT !.enabled = operation.request.enabled]
  IN /\ AtStep("enable")
     /\ \/ /\ netNvs' = updated /\ config' = updated
           /\ Go(IF updated.enabled THEN "profile" ELSE "disable")
           /\ UNCHANGED <<net, operation>> /\ KeepParties
        \/ PersistFails(updated) /\ Complete(FALSE, net)
     /\ DriverUnchanged

\* Mutant of EnableProfile: the driver keeps the profile it has.
MEnableProfile ==
  /\ AtStep("profile")
  /\ \/ DriverStarts(radio.profile) /\ Go("enabled")
     \/ DriverUnchanged /\ Go("not enabled")
  /\ UNCHANGED net
  /\ KeepAllBut

\* The driver gets the stored profile back, if it has another one.
EnableProfile ==
  /\ AtStep("profile")
  /\ \/ /\ \/ radio.profile = config.profile /\ DriverStarts(radio.profile) /\ UNCHANGED net
           \/ /\ radio.profile # config.profile
              /\ radio' = [on |-> TRUE, profile |-> config.profile, link |-> "idle"]
              /\ events' = events \o LinkDropped
              /\ net' = Unrequested
        /\ Go("enabled")
     \/ /\ \/ DriverUnchanged /\ UNCHANGED net
           \/ DriverStarts(radio.profile) /\ net' \in {net, Unrequested}
           \/ /\ radio' = [radio EXCEPT !.on = TRUE, !.link = "idle"]
              /\ events' = events \o LinkDropped
              /\ net' = Unrequested
        /\ Go("not enabled")
  /\ KeepAllBut

EnableSettle ==
  /\ \/ /\ AtStep("enabled")
        /\ Complete(TRUE, [net EXCEPT !.controlled = FALSE, !.resume = FALSE,
                                      !.requested = TRUE, !.waiting = FALSE])
     \/ /\ AtStep("not enabled")
        /\ Complete(FALSE, [net EXCEPT !.controlled = TRUE, !.resume = FALSE,
                                       !.requested = FALSE])
  /\ UNCHANGED netRecords
  /\ DriverUnchanged

Disable ==
  /\ AtStep("disable")
  /\ \/ /\ DriverDisconnects(radio.profile)
        /\ Complete(TRUE, [Unrequested EXCEPT !.controlled = FALSE, !.resume = FALSE])
     \/ /\ DriverUnchanged
        /\ Complete(FALSE, [Unrequested EXCEPT !.controlled = TRUE, !.resume = FALSE])
  /\ UNCHANGED netRecords

\* run_forget: NVS, then the driver, then s_persisted.
Forget ==
  /\ AtStep("forget")
  /\ \/ /\ netNvs' = NoRecord /\ Go("forget disconnect")
        /\ UNCHANGED <<config, net, operation>> /\ KeepParties
     \/ PersistFails(NoRecord) /\ Complete(FALSE, net)
  /\ DriverUnchanged

ForgetDisconnect ==
  /\ AtStep("forget disconnect")
  /\ net' = Unrequested
  /\ DriverDisconnects(radio.profile) \/ DriverUnchanged
  /\ Go("forget clear")
  /\ KeepAllBut

\* clear_sta_credentials and stop_sta_interface; the second is tried in any case.
ForgetClear ==
  /\ AtStep("forget clear")
  /\ \/ DriverStops(NoProfile) /\ Go("forget done")
     \/ /\ \/ \E profile \in {radio.profile, NoProfile} :
                DriverStops(profile) \/ DriverStarts(profile)
           \/ DriverUnchanged
        /\ Go("forget failed")
  /\ UNCHANGED net
  /\ KeepAllBut

ForgetSettle ==
  /\ config' = NoRecord
  /\ LET settled == [net EXCEPT !.resume = FALSE, !.requested = FALSE, !.waiting = FALSE,
                                !.controlled = AtStep("forget failed")]
     IN \/ /\ AtStep("forget done")
           /\ Complete(TRUE, [settled EXCEPT !.connected = FALSE, !.address = FALSE])
        \/ AtStep("forget failed") /\ Complete(FALSE, settled)
  /\ UNCHANGED netNvs
  /\ DriverUnchanged

(***************************************************************************)
(* WLAN.connect, disconnect, active and config (the overlay's              *)
(* network_wlan.c).                                                        *)
(***************************************************************************)
KeepService == UNCHANGED <<netRecords, operation, lastOperation, netWorker>>
Calls == {"connect", "disconnect", "up", "down", "config"}

\* esp_vision_network_python_mutation_begin
PythonBegin(call) ==
  /\ commands < MaxCommands
  /\ commands' = commands + 1
  /\ python = NoCall
  /\ operation = NoOp /\ ~net.mutating /\ ~net.inProgress
  /\ net' = [net EXCEPT !.mutating = TRUE]
  /\ python' = [pc |-> IF call = "disconnect" THEN "set" ELSE "driver", call |-> call]
  /\ untouched' = FALSE
  /\ DriverUnchanged
  /\ KeepService

PythonGo(pc) == python' = [python EXCEPT !.pc = pc]

\* The calls of the driver; one that fails ends the method, after another that did not.
PythonDriver ==
  /\ python.pc = "driver"
  /\ \/ /\ python.call = "connect"
        /\ radio.on /\ radio.link = "idle"
        /\ \E profile \in Profiles \cup ({radio.profile} \ {NoProfile}) :
             radio' = [radio EXCEPT !.profile = profile, !.link = "connecting"]
        /\ UNCHANGED events
        /\ PythonGo("set")
     \/ python.call = "up" /\ DriverStarts(radio.profile) /\ PythonGo("set")
     \/ python.call = "down" /\ DriverStops(radio.profile) /\ PythonGo("set")
     \/ /\ \E profile \in Profile : radio' = [radio EXCEPT !.profile = profile]
        /\ UNCHANGED events
        /\ \/ python.call = "config" /\ PythonGo("set")
           \/ python.call \in {"connect", "config"} /\ PythonGo("end")
     \/ python.call = "disconnect" /\ DriverDisconnects(radio.profile) /\ PythonGo("end")
     \/ DriverUnchanged /\ PythonGo("end")
  /\ UNCHANGED <<net, commands, untouched>>
  /\ KeepService

\* esp_vision_network_python_set_sta_active
StaActive(active) ==
  LET start == net.resume \/ config.enabled
  IN IF ~active
       THEN [Down(net) EXCEPT !.resume = @ \/ net.requested \/ config.enabled,
                              !.requested = FALSE, !.controlled = TRUE, !.waiting = FALSE]
       ELSE [net EXCEPT !.requested = @ \/ start, !.controlled = @ \/ start,
                        !.resume = @ /\ ~start, !.waiting = @ \/ start]

\* esp_vision_network_python_set_connect_requested, _runtime_changed
PythonSet ==
  /\ python.pc = "set"
  /\ net' = CASE python.call = "up" -> StaActive(TRUE)
              [] python.call = "down" -> StaActive(FALSE)
              [] python.call = "config" -> [net EXCEPT !.controlled = TRUE]
              [] python.call \in {"connect", "disconnect"} ->
                   [net EXCEPT !.requested = (python.call = "connect"),
                               !.inProgress = (python.call = "connect"),
                               !.controlled = TRUE, !.resume = FALSE, !.waiting = FALSE]
  /\ PythonGo(IF python.call = "disconnect" THEN "driver" ELSE "end")
  /\ UNCHANGED <<commands, untouched>>
  /\ DriverUnchanged
  /\ KeepService

\* esp_vision_network_python_mutation_end, or _cancel when WLAN.active learns no mode.
PythonEnd ==
  /\ \/ python.pc = "end" /\ net' = [net EXCEPT !.mutating = FALSE, !.waiting = FALSE]
     \/ /\ python.pc = "driver" /\ python.call \in {"up", "down"}
        /\ net' = [net EXCEPT !.mutating = FALSE]
  /\ python' = NoCall
  /\ UNCHANGED <<commands, untouched>>
  /\ DriverUnchanged
  /\ KeepService

(***************************************************************************)
(* The whole.                                                              *)
(***************************************************************************)
NetworkInit ==
  /\ radio = [on |-> FALSE, profile |-> NoProfile, link |-> "idle"]
  /\ events = <<>>
  /\ net = [requested |-> FALSE, inProgress |-> FALSE, connected |-> FALSE, address |-> FALSE,
            waiting |-> FALSE, controlled |-> FALSE, resume |-> FALSE, mutating |-> FALSE]
  /\ config \in {record \in Record : Configured(record) \/ record = NoRecord}
  /\ netNvs = config
  /\ operation = NoOp
  /\ lastOperation = [request |-> NoNetRequest, succeeded |-> FALSE]
  /\ netWorker = [pc |-> "start", for |-> "none"]
  /\ python = NoCall
  /\ commands = 0
  /\ untouched = FALSE

WorkerStep ==
  \/ Start \/ ConnectPrepare \/ ConnectCall \/ ConnectLost \/ ConnectDone \/ ConnectRetry
  \/ Reconnect \/ ReconnectStart \/ ReconnectCall \/ ReconnectLook \/ ReconnectReschedule
  \/ RunOperation \/ Configure \/ PersistCandidate \/ Rollback
  \/ Enable \/ EnableProfile \/ EnableSettle \/ Disable
  \/ Forget \/ ForgetDisconnect \/ ForgetClear \/ ForgetSettle

PythonStep == (\E call \in Calls : PythonBegin(call)) \/ PythonDriver \/ PythonSet \/ PythonEnd

NetworkNext ==
  \/ WorkerStep
  \/ HandleEvent \/ RetryDue \/ AccessPointActs
  \/ (\E request \in NetRequest : Submit(request)) \/ Release
  \/ PythonStep

NetworkSpec == NetworkInit /\ [][NetworkNext]_netVars

\* The worker's loop goes on, and a second passes.
NetworkFairness == WF_netVars(WorkerStep) /\ WF_netVars(Release)

(***************************************************************************)
(* Properties.                                                             *)
(***************************************************************************)
NetFlags ==
  [requested : BOOLEAN, inProgress : BOOLEAN, connected : BOOLEAN, address : BOOLEAN,
   waiting : BOOLEAN, controlled : BOOLEAN, resume : BOOLEAN, mutating : BOOLEAN]
Operation ==
  [request : NetRequest \cup {NoNetRequest}, state : {"none", "queued", "running"},
   released : BOOLEAN]
Method == [pc : {"idle", "driver", "set", "end"}, call : Calls \cup {"none"}]
WorkerPlaces ==
  {"start", "loop", "prepare", "connect", "wait", "retry", "start station", "reconnect", "look",
   "reschedule", "configure", "persist", "rollback", "enable", "profile", "enabled",
   "not enabled", "disable", "forget", "forget disconnect", "forget clear", "forget done",
   "forget failed"}

NetworkTypeOK ==
  /\ radio \in [on : BOOLEAN, profile : Profile, link : {"idle", "connecting", "online"}]
  /\ events \in Seq({"disconnected", "got ip", "lost ip", "stopped"})
  /\ net \in NetFlags
  /\ config \in Record /\ netNvs \in Record
  /\ operation \in Operation
  /\ lastOperation \in [request : NetRequest \cup {NoNetRequest}, succeeded : BOOLEAN]
  /\ netWorker \in [pc : WorkerPlaces, for : {"none", "start", "configure", "rollback"}]
  /\ python \in Method
  /\ commands \in 0..MaxCommands
  /\ untouched \in BOOLEAN

\* While a WLAN method changes the station no operation of the owner is accepted or under
\* way, and while one is, no method gets in: neither gives the other's place away
\* (esp_vision_network_python_mutation_begin, esp_vision_network_rpc_handle and
\* complete_operation, which opens the gate of both).
GateHolds ==
  python # NoCall => net.mutating /\ operation = NoOp

NetworkInv == NetworkTypeOK /\ GateHolds

\* What a client was told has succeeded is in force, until another operation: the record in
\* use, the one in NVS and the request agree, and until Python changes the station, so do
\* the driver and what the worker will do; a network that was forgotten is gone from the
\* driver too ("Clearing only our NVS record leaves credentials recoverable").
ResultInForce ==
  operation = NoOp /\ lastOperation.succeeded =>
    LET request == lastOperation.request
    IN /\ config = netNvs /\ config.enabled = request.enabled
       /\ request.kind = "configure" => config.profile = request.profile
       /\ request.kind = "forget" => ~Configured(config)
       /\ untouched =>
            /\ Wanted <=> request.enabled
            /\ request.enabled => radio.profile = config.profile
            /\ ~request.enabled => radio.link = "idle"
            /\ request.kind = "forget" => radio.profile = NoProfile

\* Every accepted operation ends, whatever the access point, the driver, NVS and the client
\* that waits for the answer do (network_worker, run_operation).
OperationEnds == operation # NoOp ~> operation = NoOp
=============================================================================
