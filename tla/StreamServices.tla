---------------------------- MODULE StreamServices ----------------------------
(***************************************************************************)
(* The services of one host: the stream document and what                  *)
(* scripts/webrtc_streams.py makes of it, the processes the launcher       *)
(* (horus) starts and stops for the role of the host, what                 *)
(* scripts/horus_monitor.py says of them, and which stream each video      *)
(* track of a bundled session feeds (gst_webrtc_h264_machine.py).          *)
(*                                                                         *)
(* Launcher and monitor share no state but the stream document, the pid    *)
(* files and the logs: each derives the names of the services on its own.  *)
(* A launch does not stop what runs already, and a document can be edited  *)
(* between a launch and the next look of the monitor. Robot and machine    *)
(* have documents of their own as well: a track is matched to a stream by  *)
(* its msid, where webrtcbin shows one, and by its number otherwise.       *)
(***************************************************************************)
EXTENDS Integers, Sequences, FiniteSets

CONSTANTS
    Hosts,         \* configurations (.env) a host may have
    Documents,     \* the stream documents the operator may write
    Unreadable,    \* a document that is not JSON
    RobotDocuments,  \* the documents a bundled robot may have loaded
    NoMode, NoName, NoRoom, NoTopic

(* A stream of a document: its id or name, room and output topic when it      *)
(* gives them, whether it is enabled, and whether its topics, modes, sizes    *)
(* and rates pass the checks of normalize_stream. A name is some words.        *)
IsStream(raw) ==
    /\ DOMAIN raw = {"name", "room", "output_topic", "enabled", "valid"}
    /\ raw.name # NoName =>
           /\ Len(raw.name) \in Nat \ {0}
           /\ raw.name = [i \in 1..Len(raw.name) |-> raw.name[i]]

ASSUME DocumentAssumption ==
    /\ Hosts \subseteq [role : {"robot", "machine", "teammate", "cloud"},
                        topology : {"hub", "direct"}, zenoh : BOOLEAN,
                        signaling : BOOLEAN,  \* cloud, teammate: with a relay of its own
                        turn : BOOLEAN]       \* cloud: with a TURN server
    /\ \A d \in (Documents \cup RobotDocuments) \ {Unreadable} :
           /\ d.version \in {1, 2} /\ d.mode \in {NoMode, "isolated", "bundled", "other"}
           /\ Len(d.name) = 1
           /\ Len(d.streams) \in Nat /\ DOMAIN d.streams = 1..Len(d.streams)
           /\ \A i \in DOMAIN d.streams : IsStream(d.streams[i])

Webrtc == <<"webrtc">>
Zenoh == <<"zenoh">>
Signal == <<"signal">>
Teammate == <<"teammate">>
Turn == <<"turn">>

VARIABLES
    host,         \* the configuration, which stays
    document,     \* the stream document on disk
    launched,     \* services of the last launch that was not refused
    session,      \* and the document it was launched from
    processes,    \* [service -> "running" | "exited"], of every pid file and of
                  \* the TURN server, which the system runs
    said,         \* what the log of "webrtc" says last: LogLines
    media         \* the streams "webrtc" receives, the tracks it was offered,
                  \* their msids, and [numbers of the pads that came -> stream]

servicesVars == <<host, document, launched, session, processes, said, media>>

-----------------------------------------------------------------------------
(* webrtc_streams.py *)

DefaultStream ==
    [name |-> <<"primary">>, room |-> NoRoom, output_topic |-> NoTopic,
     enabled |-> TRUE, valid |-> TRUE]

(* load_config: a document without streams stands for the stream of the       *)
(* environment.                                                              *)
RawStreams(d) == IF d.streams = <<>> THEN <<DefaultStream>> ELSE d.streams

FallbackId(i) == IF i = 1 THEN <<"primary">> ELSE <<"camera", i>>

(* normalize_stream: the i-th stream of the document, disabled ones counted.   *)
Id(raw, i) == IF raw.name # NoName THEN raw.name ELSE FallbackId(i)

(* The id of the session goes through ros_safe_name: it stays one word.        *)
Msid(d, id) == <<"horus">> \o d.name \o id

ServiceOf(id, total) == IF id = <<"primary">> /\ total = 1 THEN Webrtc ELSE Webrtc \o id

NormalizeStream(raw, i, total) ==
    LET id == Id(raw, i)
    IN [id |-> id, service |-> ServiceOf(id, total), room |-> raw.room,
        output_topic |-> IF raw.output_topic # NoTopic THEN <<raw.output_topic>>
                                                       ELSE <<"default", raw.room, id>>]

EnabledIndices(d) == {i \in DOMAIN RawStreams(d) : RawStreams(d)[i].enabled}

NormalizedStreams(d) ==
    LET total == Len(RawStreams(d))
    IN IF EnabledIndices(d) = {} THEN [i \in {1} |-> NormalizeStream(DefaultStream, 1, 1)]
       ELSE [i \in EnabledIndices(d) |-> NormalizeStream(RawStreams(d)[i], i, total)]

(* validate_unique_stream_fields: in an isolated session every stream needs a  *)
(* room of its own.                                                           *)
Unique(streams, mode) ==
    \A i, j \in DOMAIN streams : i # j =>
        /\ streams[i].id # streams[j].id
        /\ streams[i].service # streams[j].service
        /\ streams[i].output_topic # streams[j].output_topic
        /\ mode = "isolated" => streams[i].room # streams[j].room

(* load_session: without a mode, the version of the document decides; the       *)
(* environment leaves it to the document.                                      *)
SessionMode(d) ==
    IF d.mode # NoMode THEN d.mode ELSE IF d.version >= 2 THEN "bundled" ELSE "isolated"

(* load_streams *)
Loads(d) ==
    /\ d # Unreadable
    /\ \A i \in EnabledIndices(d) : RawStreams(d)[i].valid
    /\ SessionMode(d) \in {"isolated", "bundled"}
    /\ Unique(NormalizedStreams(d), SessionMode(d))

(* print_tsv: the ids, in the order of the document. *)
StreamIds(d) ==
    LET streams == NormalizedStreams(d)
        UpTo(i) == Cardinality({j \in DOMAIN streams : j <= i})
    IN [k \in 1..Cardinality(DOMAIN streams) |->
           streams[CHOOSE i \in DOMAIN streams : UpTo(i) = k].id]

-----------------------------------------------------------------------------
(* The launcher. *)

(* Robot and machine read the stream document, teammate and cloud do not. *)
HasStreams == host.role \in {"robot", "machine"}

(* A bundled session is one process, whatever its streams. *)
EndpointServices(d) ==
    IF SessionMode(d) = "bundled" THEN {Webrtc}
    ELSE {NormalizedStreams(d)[i].service : i \in DOMAIN NormalizedStreams(d)}

(* A machine that is reached directly needs a relay of its own as soon as it   *)
(* receives several isolated streams.                                         *)
MachineRelay(d) ==
    /\ host.role = "machine" /\ host.topology = "direct"
    /\ SessionMode(d) = "isolated" /\ Cardinality(DOMAIN NormalizedStreams(d)) > 1

RelayServices(d) ==
    IF IF HasStreams THEN MachineRelay(d) ELSE host.signaling THEN {Signal} ELSE {}

ZenohServices == IF host.zenoh THEN {Zenoh} ELSE {}
TurnServices == IF host.role = "cloud" /\ host.turn THEN {Turn} ELSE {}

(* What a launch starts after the bridge. *)
RoleServices(d) ==
    RelayServices(d) \cup
        CASE HasStreams -> EndpointServices(d)
          [] host.role = "teammate" -> {Teammate}
          [] host.role = "cloud" -> TurnServices

Running(s) == s \in DOMAIN processes /\ processes[s] = "running"

(* The streams an endpoint receives: those of a bundled document, or the one of *)
(* its environment.                                                           *)
EndpointStreams(d) == IF SessionMode(d) = "bundled" THEN StreamIds(d) ELSE << <<"primary">> >>

(* Nothing was offered yet. *)
Receiving(streams) == [streams |-> streams, tracks |-> <<>>, msids |-> <<>>, routed |-> <<>>]

(* start_bg: a service that runs is left as it is; another gets a new process, *)
(* pid file and log, and may exit at once.                                    *)
StartBg(services) ==
    \E failed \in SUBSET {s \in services : ~Running(s)} :
        /\ processes' = [s \in DOMAIN processes \cup services |->
                            IF s \notin services THEN processes[s]
                            ELSE IF s \in failed THEN "exited" ELSE "running"]
        /\ said' = IF Webrtc \in services /\ ~Running(Webrtc) THEN "nothing" ELSE said
        /\ media' = IF Webrtc \in services /\ ~Running(Webrtc) /\ Webrtc \notin failed
                    THEN Receiving(EndpointStreams(document)) ELSE media

Launch ==
    /\ HasStreams => Loads(document)
    /\ StartBg(ZenohServices \cup RoleServices(document))
    /\ launched' = ZenohServices \cup RoleServices(document)
    /\ session' = document
    /\ UNCHANGED <<host, document>>

(* The stream document is read after the bridge was started. *)
LaunchRefused ==
    /\ HasStreams /\ ~Loads(document)
    /\ StartBg(ZenohServices)
    /\ UNCHANGED <<host, document, launched, session>>

Exits(s) ==
    /\ Running(s)
    /\ processes' = [processes EXCEPT ![s] = "exited"]
    /\ media' = IF s = Webrtc THEN Receiving(<<>>) ELSE media
    /\ UNCHANGED <<host, document, launched, session, said>>

(* stop: every pid file of a known service goes, and what it names is killed.  *)
(* The TURN server stays when the launcher may not stop it.                   *)
Stop ==
    /\ \E stays \in SUBSET {s \in {Turn} : Running(s)} :
           processes' = [s \in stays |-> "running"]
    /\ launched' = {}
    /\ media' = Receiving(<<>>)
    /\ UNCHANGED <<host, document, session, said>>

EditDocument ==
    /\ document' \in Documents
    /\ UNCHANGED <<host, launched, session, processes, said, media>>

(* What the monitor finds first in the window of the log it reads.             *)
LogLines == {"frames", "control", "signaling", "refused", "nothing"}

LogGrows ==
    /\ Running(Webrtc)
    /\ said' \in LogLines
    /\ UNCHANGED <<host, document, launched, session, processes, media>>

-----------------------------------------------------------------------------
(* The tracks of a bundled session: gst_webrtc_h264_machine.py. *)

MaxTracks == 32

(* The msids of what a robot with this document offers, from a build of         *)
(* webrtcbin that carries them to the pads of the machine or from one that      *)
(* does not.                                                                   *)
Msids(d, shown) ==
    [k \in DOMAIN EndpointStreams(d) |-> IF shown THEN Msid(d, EndpointStreams(d)[k]) ELSE <<>>]

OfferArrives ==
    /\ host.role = "machine" /\ Running(Webrtc) /\ media.tracks = <<>>
    /\ \E d \in RobotDocuments, shown \in BOOLEAN :
           /\ Loads(d) /\ Len(EndpointStreams(d)) <= MaxTracks
           /\ media' = [media EXCEPT !.tracks = EndpointStreams(d), !.msids = Msids(d, shown)]
    /\ UNCHANGED <<host, document, launched, session, processes, said>>

First(places) == IF places = {} THEN 0 ELSE CHOOSE i \in places : \A j \in places : i <= j

Occurs(id, msid) == id # <<>> /\ \E i, j \in DOMAIN msid : SubSeq(msid, i, j) = id

Named(msid) == First({i \in DOMAIN media.streams : Occurs(media.streams[i], msid)})

(* attached_streams *)
Attached == {media.routed[k] : k \in DOMAIN media.routed}
Unattached == First({i \in DOMAIN media.streams : media.streams[i] \notin Attached})

MutantStreamForPad(k) ==
    IF Named(media.msids[k]) > 0 THEN Named(media.msids[k])
    ELSE IF Unattached > 0 THEN Unattached
    ELSE IF k \in DOMAIN media.streams THEN k ELSE 0

(* _stream_for_pad: the first stream whose id occurs in the msid, else the one  *)
(* at the number of the pad, else the first that no pad was attached to.       *)
StreamForPad(k) ==
    IF Named(media.msids[k]) > 0 THEN Named(media.msids[k])
    ELSE IF k \in DOMAIN media.streams THEN k
    ELSE Unattached

(* _on_incoming_stream: the pads come in any order; one without a stream is     *)
(* ignored.                                                                    *)
PadAdded(k) ==
    /\ Running(Webrtc)
    /\ k \in DOMAIN media.tracks \ DOMAIN media.routed
    /\ StreamForPad(k) > 0
    /\ media' = [media EXCEPT !.routed = [n \in DOMAIN @ \cup {k} |->
                      IF n = k THEN media.streams[StreamForPad(k)] ELSE @[n]]]
    /\ UNCHANGED <<host, document, launched, session, processes, said>>

(* _recover_pipeline: after an error, or when the robot left or was replaced.   *)
RecoverReceiver ==
    /\ Running(Webrtc) /\ media.tracks # <<>>
    /\ media' = Receiving(media.streams)
    /\ UNCHANGED <<host, document, launched, session, processes, said>>

-----------------------------------------------------------------------------
(* horus_monitor.py *)

(* configured_webrtc_services: the mode of the session is not looked at, and    *)
(* a stream without a name is numbered among the enabled ones.                *)
MonitoredIndices(d) == {i \in DOMAIN d.streams : d.streams[i].enabled}

MonitoredId(d, i) ==
    IF d.streams[i].name # NoName THEN d.streams[i].name
    ELSE <<"camera", Cardinality({j \in MonitoredIndices(d) : j <= i})>>

MutantConfiguredServices(d) ==
    IF d = Unreadable THEN {Webrtc}
    ELSE IF Len(d.streams) <= 1 THEN {Webrtc}
    ELSE {Webrtc \o Id(d.streams[i], i) : i \in DOMAIN d.streams}

ConfiguredServices(d) ==
    IF d = Unreadable THEN {Webrtc}
    ELSE IF Cardinality(MonitoredIndices(d)) <= 1 THEN {Webrtc}
    ELSE {Webrtc \o MonitoredId(d, i) : i \in MonitoredIndices(d)}

(* webrtc_service_names: "webrtc", and every pid file named after it. *)
IsWebrtc(s) == s[1] = "webrtc"
IsStreamService(s) == IsWebrtc(s) /\ s # Webrtc
ServiceNames == {Webrtc} \cup {s \in DOMAIN processes : IsStreamService(s)}

WebrtcNames == ConfiguredServices(document) \cup ServiceNames
ConfiguredStreams == {s \in WebrtcNames : IsStreamService(s)}
RunningStreams == {s \in WebrtcNames : Running(s)}

(* build_services: with one service, the log decides. *)
LogLevel ==
    IF said = "frames" THEN "ok"
    ELSE IF said \in {"control", "refused"} THEN "warn" ELSE "info"

WebrtcLevel ==
    IF ConfiguredStreams # {}
    THEN IF RunningStreams = {} THEN "down"
         ELSE IF Cardinality(RunningStreams) = Cardinality(ConfiguredStreams) THEN "ok"
         ELSE "warn"
    ELSE IF Running(Webrtc) THEN LogLevel ELSE "down"

(* A row of the screen has one of these levels. What logs, ports and the ROS    *)
(* graph add is left open: they tell "warn", "ok" and "info" of what runs.     *)
Alive(s, levels) == IF Running(s) THEN levels ELSE {"down"}

ZenohLevels == IF host.zenoh THEN Alive(Zenoh, {"warn", "ok", "info"}) ELSE {"idle"}

RoleLevels ==
    CASE HasStreams -> {WebrtcLevel}
      [] host.role = "teammate" -> Alive(Teammate, {"warn", "ok", "info"})
      [] host.role = "cloud" -> Alive(Signal, {"ok"})

TurnLevels ==
    IF host.role = "cloud" /\ host.turn THEN Alive(Turn, {"warn", "ok"}) ELSE {"idle"}

RosLevels == IF host.role = "cloud" THEN {"idle"} ELSE {"warn", "ok"}

(* overall_state: every status of level "ok" or "info" counts as up. *)
Overall(levels) ==
    IF "down" \in levels THEN "OFFLINE"
    ELSE IF "warn" \in levels THEN "DEGRADED"
    ELSE IF levels \cap {"ok", "info"} # {} THEN "ONLINE" ELSE "STARTING"

Screens ==
    {Overall({zenoh, role, turn, ros}) :
        zenoh \in ZenohLevels, role \in RoleLevels, turn \in TurnLevels, ros \in RosLevels}

-----------------------------------------------------------------------------
ServicesInit ==
    /\ host \in Hosts
    /\ document \in Documents
    /\ launched = {} /\ session = document
    /\ processes = <<>>
    /\ said = "nothing"
    /\ media = Receiving(<<>>)

ServicesNext ==
    \/ Launch
    \/ LaunchRefused
    \/ \E s \in DOMAIN processes : Exits(s)
    \/ Stop
    \/ EditDocument
    \/ LogGrows
    \/ OfferArrives
    \/ \E k \in DOMAIN media.tracks : PadAdded(k)
    \/ RecoverReceiver

ServicesSpec == ServicesInit /\ [][ServicesNext]_servicesVars

-----------------------------------------------------------------------------
(* The hosts the monitor is exact about: a cloud host with a relay, a robot or  *)
(* machine with isolated streams, from the document that is still there, its   *)
(* enabled streams named, and no other endpoint's pid file left by an earlier  *)
(* launch.                                                                    *)
LaunchedEndpoints == {s \in launched : IsWebrtc(s)}

Ordinary ==
    /\ launched # {}
    /\ host.role = "cloud" => host.signaling
    /\ HasStreams =>
           /\ document = session /\ SessionMode(session) = "isolated"
           /\ Cardinality(MonitoredIndices(session)) > 1
                  => \A i \in MonitoredIndices(session) : session.streams[i].name # NoName
           /\ {s \in DOMAIN processes : IsWebrtc(s)} = LaunchedEndpoints

(* What was launched, in the parts the monitor has a row for. A relay has one   *)
(* on a cloud host only.                                                      *)
Parts ==
    {{s} : s \in {x \in launched \ LaunchedEndpoints : x = Signal => host.role = "cloud"}}
    \cup (IF HasStreams THEN {LaunchedEndpoints} ELSE {})

(* The monitor derives the services of a host from its configuration, the      *)
(* document, the pid files and the process table, the launcher from            *)
(* configuration and document alone, each by its own naming rules: they agree. *)
(* The host is called offline exactly when a part of what was launched has no  *)
(* process left, whatever logs and ports say; several endpoints are ok exactly *)
(* when all run; and the host is online only when all of every part runs.      *)
MonitorExact ==
    Ordinary =>
        /\ \A screen \in Screens :
               /\ screen = "OFFLINE" <=> \E part \in Parts : \A s \in part : ~Running(s)
               /\ screen = "ONLINE" => \A s \in UNION Parts : Running(s)
        /\ Cardinality(LaunchedEndpoints) > 1
               => (WebrtcLevel = "ok" <=> \A s \in LaunchedEndpoints : Running(s))

Received == {media.streams[i] : i \in DOMAIN media.streams}

(* Every track can find its own stream: the machine receives all the robot      *)
(* offers and either no stream's id occurs in the msid of another track, or    *)
(* both list the same streams in the same order.                              *)
Matchable ==
    \/ \A k \in DOMAIN media.tracks :
           {id \in Received : Occurs(id, media.msids[k])} = {media.tracks[k]}
    \/ /\ \A k \in DOMAIN media.msids : media.msids[k] = <<>>
       /\ media.tracks = media.streams

(* No video of one camera is shown or published as another's: whatever the      *)
(* order in which the pads of a bundled session come, and after any recovery   *)
(* of the pipeline, each track feeds the stream it was offered for, so no two  *)
(* tracks share one. The tracks it does not hold of are those ~Matchable       *)
(* names.                                                                     *)
TracksRouted ==
    Matchable => \A k \in DOMAIN media.routed : media.routed[k] = media.tracks[k]

=============================================================================
