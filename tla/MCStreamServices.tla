--------------------------- MODULE MCStreamServices ---------------------------
(* A machine that is reached directly, with documents of one to three streams: *)
(* named, unnamed, disabled, refused, isolated and bundled; teammates and      *)
(* clouds with and without their optional services.                           *)
EXTENDS StreamServices

Stream(name, room) ==
    [name |-> name, room |-> room, output_topic |-> NoTopic, enabled |-> TRUE, valid |-> TRUE]

Front == Stream(<<"front">>, "front_room")
Rear == Stream(<<"rear">>, "rear_room")
Second == Stream(<<"camera", 2>>, "second_room")
FrontLow == Stream(<<"front", "low">>, "low_room")
Disabled == [Rear EXCEPT !.enabled = FALSE]
Invalid == [Rear EXCEPT !.valid = FALSE]
Unnamed == Stream(NoName, "unnamed_room")
Nameless == Stream(NoName, NoRoom)

Isolated(streams) ==
    [version |-> 1, mode |-> NoMode, name |-> <<"field">>, streams |-> streams]
Bundled(name, streams) ==
    [version |-> 1, mode |-> "bundled", name |-> <<name>>, streams |-> streams]

Sessions ==
    {Unreadable, Isolated(<<>>), Isolated(<<Front>>), Isolated(<<Front, Rear>>),
     Isolated(<<Front, Disabled, Second>>),
     Isolated(<<Nameless, Disabled>>), Isolated(<<Unnamed, Front>>),
     Isolated(<<Front, Invalid>>), Isolated(<<Front, [Rear EXCEPT !.room = "front_room"]>>),
     Bundled("field", <<Front, Rear>>),
     [Isolated(<<Front, Rear, Second>>) EXCEPT !.version = 2],
     [Isolated(<<Front>>) EXCEPT !.mode = "other"]}

(* The same streams in both orders, fewer of them, one whose id is part of      *)
(* another's, and a session named after one of its cameras.                    *)
RobotSessions ==
    {Bundled("field", <<Front, Rear>>), Bundled("field", <<Rear, Front>>),
     Bundled("field", <<Rear, Disabled>>), Bundled("field", <<Front, Rear, FrontLow>>),
     Bundled("front", <<Front, Rear>>), Isolated(<<Front>>)}

Machine ==
    [role |-> "machine", topology |-> "direct", zenoh |-> TRUE, signaling |-> FALSE, turn |-> FALSE]

MCHosts ==
    {Machine}
    \cup {h \in [role : {"teammate", "cloud"}, topology : {"hub"}, zenoh : BOOLEAN,
                  signaling : BOOLEAN, turn : BOOLEAN] : h.role = "teammate" => ~h.turn}

(* Bounds: while tracks come in, launcher and monitor stand still, since an     *)
(* endpoint that runs reads neither the document nor the pid files again; and  *)
(* only the machine, which reads it, has other documents than one.            *)
Calm ==
    /\ media.tracks # <<>> =>
           document = session /\ DOMAIN processes \subseteq {Webrtc, Zenoh} /\ said = "nothing"
    /\ HasStreams \/ document = Unreadable

=============================================================================
