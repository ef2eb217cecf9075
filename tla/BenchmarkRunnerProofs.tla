------------------------- MODULE BenchmarkRunnerProofs -------------------------
(***************************************************************************)
(* Theorems about BenchmarkRunner, for any batch of conditions and any     *)
(* number of executions and faults: a measurement is taken under its       *)
(* network profile and by its own processes alone, an accepted camera      *)
(* condition is corrected, and the program leaves nothing behind, each but *)
(* for the faults its statement names.                                     *)
(***************************************************************************)
EXTENDS BenchmarkRunner, Integers, TLAPS

(* Where main is when a condition is in progress: its profile is installed *)
(* in UnderProfile, its finally clause runs in Finishing.                  *)
Probing == {"clock", "probe", "clockStop"}
UnderProfile == Probing \cup {"start", "samplers", "measure", "fetch", "stopSamplers", "correct"}
Finishing == {"finSamplers", "finLabels", "finNetwork", "outcome"}
Installing == {"shape", "install", "limit"}
InCondition == Installing \cup UnderProfile \cup Finishing

RoleNames == OnHub \cup OnReceiver
             \cup {"tx_bridge", "pub", "fake", "robot", "robot_ack", "load_pub"}
Processes == [of : Conditions, role : RoleNames \cup {"resources", "clock"}, node : Nodes]

Types ==
    /\ run \in Nat \ {0} /\ step \in Nat \ {0}
    /\ todo \subseteq Conditions
    /\ labels \in Seq(Processes) /\ begun \in Seq(Processes) /\ samplers \in Seq(Processes)
    /\ running \subseteq Processes
    /\ accepted \in [Conditions -> Nat] /\ corrected \in [Conditions -> Nat]
    /\ pc \in InCondition => cond \in Conditions \ todo

(* What is on the sender's interface.                                      *)
ProfileInstalled ==
    /\ pc = "install" => shaping = "unconstrained" \/ kept
    /\ pc \in UnderProfile => \/ shaping = cond.profile
                              \/ cond.profile = "unconstrained" /\ kept

ShapingCleared ==
    seen \cap {"stop", "shape", "delete"} = {} /\ run = 1 =>
        \/ shaping = "unconstrained" \/ pc \in {"dead", "limit"}
        \/ netState /\ pc \in UnderProfile \cup {"finSamplers", "finLabels", "finNetwork"}

NothingRuns == pc \in {"setup", "exit"} /\ "stop" \notin seen => running = {}

(* What is known of the condition in progress before it is accepted.       *)
Corrected ==
    /\ pc \in InCondition => accepted[cond] = 0
    /\ pc = "correct" => cond \notin rejected
    /\ pc \in Finishing /\ ~exc /\ cond.kind # "control" =>
           corrected[cond] = run /\ cond \notin rejected
    /\ AcceptedIsCorrected

-----------------------------------------------------------------------------
(* The plan so far.                                                        *)
Has(s, x) == \E i \in DOMAIN s : s[i] = x
Labelled(p) == Has(labels, p)
(* Running, unless something has ended by itself.                          *)
Runs(p) == p \in running \/ "ended" \in seen

PlanFollowed ==
    /\ pc \in Installing => phase = "pre"
    /\ pc \in Installing \/ (pc \in Probing /\ phase = "pre") => step = 1
    /\ pc \in {"measure", "fetch"} => step = 1
    /\ pc \in InCondition =>
           \A p \in Processes : Labelled(p) => \E role \in Roles(cond) : p = Process(cond, role)
    /\ pc = "start" =>
           /\ step \in DOMAIN Plan(cond)
           /\ \A i \in 1 .. step - 1 :
                  LET s == Plan(cond)[i] IN
                  /\ s.start # "check" => Runs(Process(cond, s.start))
                  /\ \A k \in DOMAIN s.record : Labelled(Process(cond, s.record[k]))
    /\ pc \in {"samplers", "measure"} =>
           \A role \in Roles(cond) :
               Runs(Process(cond, role)) /\ Labelled(Process(cond, role))
    /\ pc = "samplers" =>
           \A i \in DOMAIN SampledNodes : i < step => Runs(Sampler(cond, SampledNodes[i]))
    /\ pc = "measure" => \A role \in Roles(cond) : Runs(Sampler(cond, NodeOf(role)))

-----------------------------------------------------------------------------
(* Who may be running, when no stop failed and no start was lost.          *)
HeldSampler(p) ==
    \/ exc
    \/ pc = "samplers" /\ Has(begun, p)
    \/ pc \in {"measure", "fetch"} /\ Has(samplers, p)
    \/ pc = "stopSamplers" /\ \E i \in DOMAIN samplers : step <= i /\ samplers[i] = p

HeldProcess(p) ==
    \/ Labelled(p)
    \/ pc \in {"probe", "clockStop"} /\ p = ClockServer(cond)
    \/ /\ p.role = "rx_bridge" /\ p.of.cloud /\ (exc \/ pc = "start")
       /\ \E role \in Roles(cond) : p = Process(cond, role)

Held(p) == IF p.role = "resources" THEN HeldSampler(p) ELSE HeldProcess(p)

NoStrays ==
    /\ pc \in {"next", "stopAll"} => \A p \in running : Leftover(p)
    /\ pc \in {"next"} \cup InCondition => \A p \in running : p.of \notin todo
    /\ pc \in InCondition =>
           \A p \in running : IF p.of = cond THEN Held(p) ELSE Leftover(p)
    /\ pc \in {"finNetwork", "outcome"} => labels = <<>>

Strays == seen \cap {"lost", "stop"} = {} => NoStrays

-----------------------------------------------------------------------------
(* The plans.  What a sequence of steps of c's plan starts is recorded by  *)
(* the end of it, and nothing else is; a step records what it starts, but  *)
(* for the receiver's bridge of a cloud condition.                         *)
Steps == [start : RoleNames \cup {"check"}, record : Seq(RoleNames)]

SelfRecorded(s) == \E k \in DOMAIN s.record : s.record[k] = s.start

StepsOf(c, plan) ==
    /\ plan \in Seq(Steps)
    /\ \A i \in DOMAIN plan :
           \/ plan[i].start = "check" /\ plan[i].record = <<>>
           \/ SelfRecorded(plan[i])
           \/ plan[i].start = "rx_bridge" /\ c.cloud
    /\ \A i \in DOMAIN plan : plan[i].start # "check" =>
           \E j \in DOMAIN plan : \E k \in DOMAIN plan[j].record :
               plan[j].record[k] = plan[i].start
    /\ \A j \in DOMAIN plan : \A k \in DOMAIN plan[j].record :
           \E i \in DOMAIN plan : plan[i].start = plan[j].record[k]

LEMMA StepRecorded ==
    ASSUME NEW role \in RoleNames
    PROVE  /\ Step(role) \in Steps /\ SelfRecorded(Step(role))
           /\ Step(role).start = role /\ role # "check"
           /\ DOMAIN Step(role).record = {1} /\ Step(role).record[1] = role
<1>1. <<role>> \in Seq(RoleNames) /\ DOMAIN <<role>> = {1} /\ <<role>>[1] = role
  OBVIOUS
<1> QED BY <1>1 DEF Step, Steps, SelfRecorded, RoleNames, OnHub, OnReceiver

(* The elements of a concatenation are those of its parts.                 *)
LEMMA ConcatElements ==
    ASSUME NEW S, NEW p \in Seq(S), NEW q \in Seq(S)
    PROVE  p \o q \in Seq(S) /\ \A x : Has(p \o q, x) <=> Has(p, x) \/ Has(q, x)
<1> DEFINE r == p \o q
<1>1. /\ DOMAIN p = 1 .. Len(p) /\ Len(p) \in Nat
      /\ DOMAIN q = 1 .. Len(q) /\ Len(q) \in Nat
  OBVIOUS
<1>2. /\ r \in Seq(S) /\ DOMAIN r = 1 .. Len(p) + Len(q)
      /\ \A i \in DOMAIN p : i \in DOMAIN r /\ r[i] = p[i]
      /\ \A i \in DOMAIN q : Len(p) + i \in DOMAIN r /\ r[Len(p) + i] = q[i]
  BY <1>1
<1> HIDE DEF r
<1>3. ASSUME NEW i \in DOMAIN r, i \notin DOMAIN p PROVE \E j \in DOMAIN q : r[i] = q[j]
  <2>1. i \in 1 .. Len(p) + Len(q) /\ ~(i \in 1 .. Len(p))
    BY <1>1, <1>2, <1>3
  <2>2. i - Len(p) \in 1 .. Len(q) /\ Len(p) + (i - Len(p)) = i
    BY <1>1, <2>1
  <2> QED BY <1>1, <1>2, <2>2
<1>4. \A x : Has(r, x) <=> Has(p, x) \/ Has(q, x)
  BY <1>2, <1>3 DEF Has
<1> QED BY <1>2, <1>4 DEF r

LEMMA OneElement ==
    ASSUME NEW x PROVE \A y : Has(<<x>>, y) <=> y = x
<1>1. DOMAIN <<x>> = {1} /\ <<x>>[1] = x
  OBVIOUS
<1> QED BY <1>1 DEF Has

LEMMA NoElement == \A y : ~Has(<<>>, y)
BY DEF Has

(* A sequence without its last element.                                    *)
LEMMA ShorterHas ==
    ASSUME NEW S, NEW q \in Seq(S), q # <<>>
    PROVE  LET r == SubSeq(q, 1, Len(q) - 1) IN
           r \in Seq(S) /\ \A x : Has(q, x) <=> Has(r, x) \/ x = q[Len(q)]
<1> DEFINE r == SubSeq(q, 1, Len(q) - 1)
<1>1. DOMAIN q = 1 .. Len(q) /\ Len(q) \in Nat \ {0}
  OBVIOUS
<1>2. r \in Seq(S) /\ DOMAIN r = 1 .. Len(q) - 1 /\ \A i \in 1 .. Len(q) - 1 : r[i] = q[i]
  BY <1>1
<1> HIDE DEF r
<1>3. \A i \in DOMAIN q : i \in DOMAIN r \/ i = Len(q)
  BY <1>1, <1>2
<1>4. r \in Seq(S) /\ \A x : Has(q, x) <=> Has(r, x) \/ x = q[Len(q)]
  BY <1>1, <1>2, <1>3 DEF Has
<1> QED BY <1>4 DEF r

LEMMA StepsConcat ==
    ASSUME NEW c, NEW p, NEW q, StepsOf(c, p), StepsOf(c, q)
    PROVE  StepsOf(c, p \o q)
<1> DEFINE r == p \o q
<1>1. p \in Seq(Steps) /\ q \in Seq(Steps)
  BY DEF StepsOf
<1>2. r \in Seq(Steps) /\ \A x : Has(r, x) <=> Has(p, x) \/ Has(q, x)
  BY <1>1, ConcatElements
<1> HIDE DEF r
<1>3. /\ \A i \in DOMAIN p : \E j \in DOMAIN r : r[j] = p[i]
      /\ \A i \in DOMAIN q : \E j \in DOMAIN r : r[j] = q[i]
      /\ \A i \in DOMAIN r : \/ \E j \in DOMAIN p : r[i] = p[j]
                            \/ \E j \in DOMAIN q : r[i] = q[j]
  BY <1>2 DEF Has
<1>4. \A i \in DOMAIN r :
         \/ r[i].start = "check" /\ r[i].record = <<>>
         \/ SelfRecorded(r[i])
         \/ r[i].start = "rx_bridge" /\ c.cloud
  BY <1>3 DEF StepsOf
<1>5. \A i \in DOMAIN r : r[i].start # "check" =>
         \E j \in DOMAIN r : \E k \in DOMAIN r[j].record : r[j].record[k] = r[i].start
  <2>1. ASSUME NEW i \in DOMAIN p, p[i].start # "check"
        PROVE  \E j \in DOMAIN r : \E k \in DOMAIN r[j].record : r[j].record[k] = p[i].start
    <3>1. \E j \in DOMAIN p : \E k \in DOMAIN p[j].record : p[j].record[k] = p[i].start
      BY <2>1 DEF StepsOf
    <3> QED BY <1>3, <3>1
  <2>2. ASSUME NEW i \in DOMAIN q, q[i].start # "check"
        PROVE  \E j \in DOMAIN r : \E k \in DOMAIN r[j].record : r[j].record[k] = q[i].start
    <3>1. \E j \in DOMAIN q : \E k \in DOMAIN q[j].record : q[j].record[k] = q[i].start
      BY <2>2 DEF StepsOf
    <3> QED BY <1>3, <3>1
  <2> QED BY <1>3, <2>1, <2>2
<1>6. \A j \in DOMAIN r : \A k \in DOMAIN r[j].record :
         \E i \in DOMAIN r : r[i].start = r[j].record[k]
  <2>1. ASSUME NEW j \in DOMAIN p, NEW k \in DOMAIN p[j].record
        PROVE  \E i \in DOMAIN r : r[i].start = p[j].record[k]
    <3>1. \E i \in DOMAIN p : p[i].start = p[j].record[k]
      BY DEF StepsOf
    <3> QED BY <1>3, <3>1
  <2>2. ASSUME NEW j \in DOMAIN q, NEW k \in DOMAIN q[j].record
        PROVE  \E i \in DOMAIN r : r[i].start = q[j].record[k]
    <3>1. \E i \in DOMAIN q : q[i].start = q[j].record[k]
      BY DEF StepsOf
    <3> QED BY <1>3, <3>1
  <2> QED BY <1>3, <2>1, <2>2
<1> QED BY <1>2, <1>4, <1>5, <1>6 DEF StepsOf, r

LEMMA OneStep == ASSUME NEW c, NEW role \in RoleNames PROVE StepsOf(c, <<Step(role)>>)
<1> DEFINE s == Step(role)
<1>1. /\ s \in Steps /\ SelfRecorded(s) /\ s.start = role /\ role # "check"
      /\ DOMAIN s.record = {1} /\ s.record[1] = role
  BY StepRecorded
<1> HIDE DEF s
<1>2. <<s>> \in Seq(Steps) /\ DOMAIN <<s>> = {1} /\ <<s>>[1] = s
  BY <1>1
<1> QED BY <1>1, <1>2 DEF StepsOf, s

LEMMA NoStep == ASSUME NEW c PROVE StepsOf(c, <<>>)
BY DEF StepsOf

(* The bridges' steps, and the whole plan, which ends with a process.      *)
LEMMA BridgesSteps == ASSUME NEW c \in Conditions PROVE StepsOf(c, Bridges(c))
<1> DEFINE rx == [start |-> "rx_bridge", record |-> <<>>]
           tx == [start |-> "tx_bridge", record |-> <<"rx_bridge", "tx_bridge">>]
<1>1. StepsOf(c, <<Check>>)
  <2>1. /\ Check \in Steps /\ Check.start = "check"
        /\ Check.record = <<>> /\ DOMAIN Check.record = {}
    BY DEF Check, Steps
  <2> DEFINE s == <<Check>>
  <2>2. s \in Seq(Steps) /\ DOMAIN s = {1} /\ s[1] = Check
    BY <2>1
  <2> HIDE DEF s
  <2>3. \A i \in DOMAIN s : s[i].start = "check" /\ s[i].record = <<>> /\ DOMAIN s[i].record = {}
    BY <2>1, <2>2
  <2>4. StepsOf(c, s)
    BY <2>2, <2>3 DEF StepsOf
  <2> QED BY <2>4 DEF s
<1>2. "rx_bridge" \in RoleNames /\ "tx_bridge" \in RoleNames /\ "hub_bridge" \in RoleNames
  BY DEF RoleNames, OnHub, OnReceiver
<1>3. c.cloud => StepsOf(c, <<rx, tx>>)
  <2>1. /\ rx \in Steps /\ rx.start = "rx_bridge" /\ DOMAIN rx.record = {}
        /\ tx \in Steps /\ tx.start = "tx_bridge" /\ DOMAIN tx.record = {1, 2}
        /\ tx.record[1] = "rx_bridge" /\ tx.record[2] = "tx_bridge"
    BY <1>2 DEF Steps
  <2> HIDE DEF rx, tx
  <2>2. /\ <<rx, tx>> \in Seq(Steps) /\ DOMAIN <<rx, tx>> = {1, 2}
        /\ <<rx, tx>>[1] = rx /\ <<rx, tx>>[2] = tx
    BY <2>1
  <2> QED BY <2>1, <2>2 DEF StepsOf, SelfRecorded
<1>4. <<Step("rx_bridge"), Step("tx_bridge"), Check>> =
          (<<Step("rx_bridge")>> \o <<Step("tx_bridge")>>) \o <<Check>>
  OBVIOUS
<1>5. <<Step("hub_bridge"), rx, tx, Check>> = (<<Step("hub_bridge")>> \o <<rx, tx>>) \o <<Check>>
  OBVIOUS
<1>6. StepsOf(c, <<Step("rx_bridge"), Step("tx_bridge"), Check>>)
  BY <1>1, <1>2, <1>4, OneStep, StepsConcat
<1>7. c.cloud => StepsOf(c, <<Step("hub_bridge"), rx, tx, Check>>)
  BY <1>1, <1>2, <1>3, <1>5, OneStep, StepsConcat
<1> QED BY <1>6, <1>7, NoStep DEF Bridges

LEMMA PlanSteps ==
    ASSUME NEW c \in Conditions
    PROVE  /\ StepsOf(c, Plan(c))
           /\ Len(Plan(c)) \in DOMAIN Plan(c) /\ Plan(c)[Len(Plan(c))].start # "check"
<1>1. c.kind \in {"ros", "webrtc", "control"}
  BY ConditionsAssumption DEF GeneratedConditions
<1>2. /\ "sub" \in RoleNames /\ "pub" \in RoleNames /\ "signal" \in RoleNames
      /\ "machine" \in RoleNames /\ "fake" \in RoleNames /\ "robot" \in RoleNames
      /\ "robot_ack" \in RoleNames /\ "load_sub" \in RoleNames
      /\ "load_pub" \in RoleNames /\ "machine_cmd" \in RoleNames
  BY DEF RoleNames, OnHub, OnReceiver
<1>3. ASSUME NEW plan, NEW role \in RoleNames, StepsOf(c, plan)
      PROVE  LET r == plan \o <<Step(role)>> IN
             StepsOf(c, r) /\ Len(r) \in DOMAIN r /\ r[Len(r)].start # "check"
  <2>1. StepsOf(c, plan \o <<Step(role)>>)
    BY <1>3, OneStep, StepsConcat
  <2>2. plan \in Seq(Steps) /\ Step(role) \in Steps /\ Step(role).start # "check"
    BY <1>3, StepRecorded DEF StepsOf
  <2> HIDE DEF Step
  <2>3. LET r == plan \o <<Step(role)>> IN
        Len(r) = Len(plan) + 1 /\ Len(r) \in DOMAIN r /\ r[Len(r)] = Step(role)
    BY <2>2
  <2> QED BY <2>1, <2>2, <2>3
<1>4. CASE c.kind = "ros"
  <2>1. StepsOf(c, Bridges(c) \o <<Step("sub")>>)
    BY <1>2, BridgesSteps, OneStep, StepsConcat
  <2>2. Bridges(c) \in Seq(Steps)
    BY BridgesSteps DEF StepsOf
  <2>3. Plan(c) = (Bridges(c) \o <<Step("sub")>>) \o <<Step("pub")>>
    BY <1>4, <2>2 DEF Plan, RosPlan
  <2> QED BY <1>2, <1>3, <2>1, <2>3
<1>5. CASE c.kind = "webrtc"
  <2> DEFINE relay == IF c.cloud THEN <<Step("signal")>> ELSE <<>>
  <2>1. StepsOf(c, relay)
    BY <1>2, OneStep, NoStep
  <2>2. StepsOf(c, (relay \o <<Step("machine")>>) \o <<Step("fake")>>)
    BY <1>2, <2>1, OneStep, StepsConcat
  <2>3. Plan(c) = ((relay \o <<Step("machine")>>) \o <<Step("fake")>>) \o <<Step("robot")>>
    BY <1>5, <2>1 DEF Plan, WebrtcPlan, StepsOf
  <2> HIDE DEF relay
  <2> QED BY <1>2, <1>3, <2>2, <2>3
<1>6. CASE c.kind = "control"
  <2> DEFINE video == IF c.load THEN <<Step("load_sub"), Step("load_pub")>> ELSE <<>>
             front == Bridges(c) \o <<Step("robot_ack")>>
  <2>1. <<Step("load_sub"), Step("load_pub")>> = <<Step("load_sub")>> \o <<Step("load_pub")>>
    OBVIOUS
  <2>2. StepsOf(c, video)
    BY <1>2, <2>1, OneStep, NoStep, StepsConcat
  <2>3. StepsOf(c, front)
    BY <1>2, BridgesSteps, OneStep, StepsConcat
  <2>4. Plan(c) = (front \o video) \o <<Step("machine_cmd")>>
    BY <1>6 DEF Plan, ControlPlan
  <2> HIDE DEF video, front
  <2> QED BY <1>2, <1>3, <2>2, <2>3, <2>4, StepsConcat
<1> QED BY <1>1, <1>4, <1>5, <1>6

-----------------------------------------------------------------------------
(* What the actions are built from.                                        *)
LEMMA ProcessTypes ==
    ASSUME NEW c \in Conditions
    PROVE  /\ \A role \in RoleNames : Process(c, role) \in Processes
           /\ \A n \in Nodes : Sampler(c, n) \in Processes
           /\ ClockServer(c) \in Processes
           /\ Roles(c) \subseteq RoleNames
<1>1. \A i \in DOMAIN Plan(c) : Plan(c)[i] \in Steps
  BY PlanSteps DEF StepsOf
<1>2. Roles(c) \subseteq RoleNames
  BY <1>1 DEF Roles, Steps
<1>3. \A role : NodeOf(role) \in Nodes
  BY DEF NodeOf, Nodes
<1>4. "hub" \in Nodes /\ "receiver" \in Nodes
  BY DEF Nodes
<1> QED BY <1>2, <1>3, <1>4 DEF Process, Sampler, ClockServer, Processes

(* The labels that a step of the plan adds.                                *)
LEMMA RecordedLabels ==
    ASSUME NEW c \in Conditions, NEW record \in Seq(RoleNames), NEW old \in Seq(Processes)
    PROVE  LET new == old \o [i \in DOMAIN record |-> Process(c, record[i])] IN
           /\ new \in Seq(Processes)
           /\ \A p : Has(new, p) <=> \/ Has(old, p)
                                  \/ \E k \in DOMAIN record : p = Process(c, record[k])
<1> DEFINE added == [i \in DOMAIN record |-> Process(c, record[i])]
           new == old \o added
<1>1. /\ added \in Seq(Processes) /\ DOMAIN added = DOMAIN record
      /\ \A k \in DOMAIN record : added[k] = Process(c, record[k])
  <2>1. DOMAIN record = 1 .. Len(record) /\ Len(record) \in Nat
    OBVIOUS
  <2>2. \A i \in DOMAIN record : Process(c, record[i]) \in Processes
    BY ProcessTypes
  <2> QED BY <2>1, <2>2
<1> HIDE DEF added
<1>2. new \in Seq(Processes) /\ \A p : Has(new, p) <=> Has(old, p) \/ Has(added, p)
  BY <1>1, ConcatElements
<1>3. \A p : Has(added, p) <=> \E k \in DOMAIN record : p = Process(c, record[k])
  BY <1>1 DEF Has
<1> HIDE DEF new
<1>4. /\ new \in Seq(Processes)
      /\ \A p : Has(new, p) <=> \/ Has(old, p)
                             \/ \E k \in DOMAIN record : p = Process(c, record[k])
  BY <1>2, <1>3
<1> QED BY <1>4 DEF added, new

LEMMA SampledNodesFacts ==
    ASSUME labels \in Seq(Processes)
    PROVE  /\ SampledNodes \in Seq(Nodes)
           /\ \A p : Labelled(p) => Has(SampledNodes, p.node)
<1> DEFINE used(n) == IF \E i \in DOMAIN labels : labels[i].node = n THEN <<n>> ELSE <<>>
           h == used("hub")
           r == used("receiver")
           s == used("sender")
<1>1. \A n \in Nodes : /\ used(n) \in Seq(Nodes)
                      /\ \A p : Labelled(p) /\ p.node = n => Has(used(n), n)
  <2> TAKE n \in Nodes
  <2>1. <<n>> \in Seq(Nodes) /\ <<>> \in Seq(Nodes) /\ Has(<<n>>, n)
    BY OneElement
  <2> QED BY <2>1 DEF Labelled, Has
<1>2. SampledNodes = (s \o h) \o r
  BY DEF SampledNodes
<1>3. "hub" \in Nodes /\ "receiver" \in Nodes /\ "sender" \in Nodes
  BY DEF Nodes
<1>4. /\ h \in Seq(Nodes) /\ r \in Seq(Nodes) /\ s \in Seq(Nodes)
      /\ \A p : Labelled(p) /\ p.node = "hub" => Has(h, p.node)
      /\ \A p : Labelled(p) /\ p.node = "receiver" => Has(r, p.node)
      /\ \A p : Labelled(p) /\ p.node = "sender" => Has(s, p.node)
  BY <1>1, <1>3
<1> HIDE DEF h, r, s
<1>5. \A p : Labelled(p) => p.node \in {"hub", "receiver", "sender"}
  <2>1. \A p : Labelled(p) => p \in Processes
    BY DEF Labelled, Has
  <2> QED BY <2>1 DEF Processes, Nodes
<1>6. s \o h \in Seq(Nodes) /\ \A x : Has(s \o h, x) <=> Has(s, x) \/ Has(h, x)
  BY <1>4, ConcatElements
<1>7. /\ (s \o h) \o r \in Seq(Nodes)
      /\ \A x : Has((s \o h) \o r, x) <=> Has(s \o h, x) \/ Has(r, x)
  BY <1>4, <1>6, ConcatElements
<1> QED BY <1>2, <1>4, <1>5, <1>6, <1>7

LEMMA SampledNodesType == Types => SampledNodes \in Seq(Nodes)
BY SampledNodesFacts DEF Types

(* The step of the plan that is next, at which main is in "start".         *)
LEMMA StartFacts ==
    ASSUME Types, PlanFollowed, pc = "start"
    PROVE  /\ cond \in Conditions /\ Current \in Steps
           /\ step \in DOMAIN Plan(cond) /\ Current = Plan(cond)[step]
           /\ Current.start # "check" =>
                  /\ Current.start \in Roles(cond)
                  /\ Process(cond, Current.start) \in Processes
<1>1. cond \in Conditions /\ step \in DOMAIN Plan(cond)
  BY DEF Types, PlanFollowed, InCondition, Installing, UnderProfile
<1>2. Current \in Steps
  BY <1>1, PlanSteps DEF StepsOf, Current
<1>3. Current.start # "check" => Current.start \in Roles(cond)
  BY <1>1 DEF Roles, Current
<1> QED BY <1>1, <1>2, <1>3, ProcessTypes DEF Current

LEMMA SamplerFacts ==
    ASSUME Types, pc = "samplers", step <= Len(SampledNodes)
    PROVE  /\ cond \in Conditions /\ step \in DOMAIN SampledNodes
           /\ Sampler(cond, SampledNodes[step]) \in Processes
<1>1. cond \in Conditions /\ step \in Nat \ {0} /\ SampledNodes \in Seq(Nodes)
  BY SampledNodesFacts DEF Types, InCondition, Installing, UnderProfile
<1>2. step \in DOMAIN SampledNodes
  BY <1>1
<1>3. SampledNodes[step] \in Nodes
  BY <1>1, <1>2
<1> QED BY <1>1, <1>2, <1>3, ProcessTypes

-----------------------------------------------------------------------------
LEMMA TypeInit == Init => Types
BY DEF Init, Types, InCondition, Installing, UnderProfile, Probing, Finishing

LEMMA TypeNext == Types /\ PlanFollowed /\ [Next]_vars => Types'
<1> SUFFICES ASSUME Types, PlanFollowed, [Next]_vars PROVE Types'
  OBVIOUS
<1> USE DEF batchVars, condVars, fileVars, faultVars, InCondition, Installing, UnderProfile,
            Probing, Finishing
<1>1. CASE Begin \/ Setup \/ Finish \/ Ends \/ Killed \/ RunAgain \/ UNCHANGED vars
  BY <1>1 DEF Types, Begin, Setup, Finish, Killed, RunAgain, StopAll, Ends, vars
<1>2. CASE Skip \/ NextCondition \/ BatchDone \/ Outcome
  <2>1. CASE Skip
    BY <2>1 DEF Types, Skip
  <2>2. CASE NextCondition
    BY <2>2 DEF Types, NextCondition
  <2>3. CASE BatchDone
    BY <2>3 DEF Types, BatchDone
  <2>4. CASE Outcome
    <3>1. /\ accepted' \in [Conditions -> Nat]
          /\ UNCHANGED <<batchVars, condVars, running, corrected>>
          /\ pc \in InCondition
      BY <2>4 DEF Types, Outcome
    <3> QED BY <3>1 DEF Types
  <2> QED BY <1>2, <2>1, <2>2, <2>3, <2>4
<1>3. CASE ApplyNetworkProfile \/ ClockStart \/ ClockProbe \/ ClockStop \/ ClockStopFails
  <2>1. cond \in Conditions /\ ClockServer(cond) \in Processes
    BY <1>3, ProcessTypes DEF Types, ApplyNetworkProfile, DeleteOld, Install, LimitRate, Applied,
                              ApplyFails, ClockStart, ClockProbe, ClockStop, ClockStopFails
  <2> QED BY <1>3, <2>1 DEF Types, ApplyNetworkProfile, DeleteOld, Install, LimitRate, Applied,
                            ApplyFails, ClockStart, ClockProbe, ClockStop, ClockStopFails, Raise,
                            Started, StartFails, Stopped, StopTimesOut
<1>4. CASE StartProcess
  <2>1. labels' \in Seq(Processes)
    <3>1. Current.record \in Seq(RoleNames) /\ cond \in Conditions
      BY <1>4, StartFacts DEF StartProcess, Steps
    <3> DEFINE record == Current.record
               new == labels \o [i \in DOMAIN record |-> Process(cond, record[i])]
    <3>2. new \in Seq(Processes)
      BY <3>1, RecordedLabels DEF Types
    <3>3. labels' = new \/ labels' = labels
      BY <1>4 DEF StartProcess
    <3> QED BY <3>2, <3>3 DEF Types
  <2> QED BY <1>4, <2>1, StartFacts DEF Types, StartProcess, Started, StartFails, Raise
<1>5. CASE StartSampler
  <2>1. Sampler(cond, SampledNodes[step]) \in Processes
    BY <1>5, SamplerFacts DEF StartSampler
  <2>2. /\ running' \subseteq running \cup {Sampler(cond, SampledNodes[step])}
        /\ begun' \in {begun, Append(begun, Sampler(cond, SampledNodes[step]))}
    BY <1>5 DEF StartSampler, Started, StartFails
  <2>3. running' \subseteq Processes
    BY <2>1, <2>2 DEF Types
  <2>4. begun' \in Seq(Processes)
    <3> DEFINE p == Sampler(cond, SampledNodes[step])
    <3>1. p \in Processes /\ begun \in Seq(Processes)
      BY <2>1 DEF Types
    <3> HIDE DEF p
    <3>2. Append(begun, p) \in Seq(Processes)
      BY <3>1
    <3> QED BY <2>2, <3>1, <3>2 DEF p
  <2>5. /\ UNCHANGED <<run, todo, labels, samplers, accepted, corrected, cond>>
        /\ step' \in {step, step + 1} /\ pc \in InCondition
    BY <1>5 DEF StartSampler
  <2> QED BY <2>3, <2>4, <2>5 DEF Types
<1>6. CASE CheckTransport \/ SamplersStarted \/ Measure \/ SamplersStopped \/ Correct
  <2>1. CASE CheckTransport
    BY <2>1 DEF Types, CheckTransport, Raise
  <2>2. CASE SamplersStarted \/ Measure
    BY <2>2 DEF Types, SamplersStarted, Measure
  <2>3. CASE SamplersStopped
    BY <2>3 DEF Types, SamplersStopped
  <2>4. CASE Correct
    BY <2>4 DEF Types, Correct, Raise
  <2> QED BY <1>6, <2>1, <2>2, <2>3, <2>4
<1>7. CASE Fetch
  BY <1>7 DEF Types, Fetch
<1>8. CASE StopSampler
  BY <1>8 DEF Types, StopSampler, Stopped, StopTimesOut
<1>9. CASE Finally
  <2>1. CASE StopLabel
    <3>1. labels # <<>> => SubSeq(labels, 1, Len(labels) - 1) \in Seq(Processes)
      BY DEF Types
    <3> QED BY <2>1, <3>1 DEF Types, StopLabel, Stopped, StopTimesOut
  <2>2. CASE FinallySamplers \/ LabelsStopped \/ FinallyNetwork
    BY <2>2 DEF Types, FinallySamplers, LabelsStopped, FinallyNetwork
  <2> QED BY <1>9, <2>1, <2>2 DEF Finally
<1> QED BY <1>1, <1>2, <1>3, <1>4, <1>5, <1>6, <1>7, <1>8, <1>9 DEF Next, Batch, Try

-----------------------------------------------------------------------------
(* The sender's interface.  A profile is installed before anything else of *)
(* the condition, and the finally clause deletes it, unless a fault is in   *)
(* seen.                                                                   *)
LEMMA ProfileNext == ProfileInstalled /\ [Next]_vars => ProfileInstalled'
<1> SUFFICES ASSUME ProfileInstalled, [Next]_vars PROVE ProfileInstalled'
  OBVIOUS
<1> USE DEF ProfileInstalled, UnderProfile, Probing, condVars
<1>1. CASE Batch \/ Ends \/ Killed \/ RunAgain \/ UNCHANGED vars
  BY <1>1 DEF Batch, Begin, Setup, Skip, NextCondition, BatchDone, Finish, Outcome, Ends,
              Killed, RunAgain, vars
<1>2. CASE ApplyNetworkProfile
  BY <1>2 DEF ApplyNetworkProfile, DeleteOld, Install, LimitRate, Applied, ApplyFails, Raise
<1>3. CASE ClockStart \/ ClockProbe \/ ClockStop \/ ClockStopFails
  BY <1>3 DEF ClockStart, ClockProbe, ClockStop, ClockStopFails, Raise
<1>4. CASE StartProcess \/ CheckTransport \/ StartSampler \/ SamplersStarted
  BY <1>4 DEF StartProcess, CheckTransport, StartSampler, SamplersStarted, Raise
<1>5. CASE Measure \/ Fetch \/ StopSampler \/ SamplersStopped \/ Correct
  BY <1>5 DEF Measure, Fetch, StopSampler, SamplersStopped, Correct, Raise
<1>6. CASE Finally
  BY <1>6 DEF Finally, FinallySamplers, StopLabel, LabelsStopped, FinallyNetwork
<1> QED BY <1>1, <1>2, <1>3, <1>4, <1>5, <1>6 DEF Next, Try

(* seen only grows while the program runs.                                 *)
LEMMA SeenGrows == [Next]_vars => seen \subseteq seen' \/ RunAgain
<1> SUFFICES ASSUME [Next]_vars, ~RunAgain PROVE seen \subseteq seen'
  OBVIOUS
<1> USE DEF NoFault, Fault, faultVars
<1>1. CASE Batch \/ Ends \/ Killed \/ UNCHANGED vars
  BY <1>1 DEF Batch, Begin, Setup, Skip, NextCondition, BatchDone, Finish, Outcome, Ends,
              Killed, StopAll, vars
<1>2. CASE ApplyNetworkProfile \/ ClockStart \/ ClockProbe \/ ClockStop \/ ClockStopFails
  BY <1>2 DEF ApplyNetworkProfile, DeleteOld, Install, LimitRate, Applied, ApplyFails, ClockStart,
              ClockProbe, ClockStop, ClockStopFails, Started, StartFails, Stopped, StopTimesOut
<1>3. CASE StartProcess \/ CheckTransport \/ StartSampler \/ SamplersStarted
  BY <1>3 DEF StartProcess, CheckTransport, StartSampler, SamplersStarted, Started, StartFails
<1>4. CASE Measure \/ Fetch \/ StopSampler \/ SamplersStopped \/ Correct
  BY <1>4 DEF Measure, Fetch, StopSampler, SamplersStopped, Correct, Stopped, StopTimesOut
<1>5. CASE Finally
  BY <1>5 DEF Finally, FinallySamplers, StopLabel, LabelsStopped, FinallyNetwork, Stopped,
              StopTimesOut
<1> QED BY <1>1, <1>2, <1>3, <1>4, <1>5 DEF Next, Try

LEMMA ClearedNext == Types /\ ShapingCleared /\ [Next]_vars => ShapingCleared'
<1> SUFFICES ASSUME Types, ShapingCleared, [Next]_vars,
                    seen' \cap {"stop", "shape", "delete"} = {}, run' = 1
             PROVE  \/ shaping' = "unconstrained" \/ pc' \in {"dead", "limit"}
                    \/ /\ netState'
                       /\ pc' \in UnderProfile \cup {"finSamplers", "finLabels", "finNetwork"}
  BY DEF ShapingCleared
<1> USE DEF condVars, batchVars
<1>1. ~RunAgain
  BY DEF RunAgain, Types
<1>2. seen \cap {"stop", "shape", "delete"} = {}
  BY <1>1, SeenGrows
<1>3. run = 1
  BY <1>1 DEF Next, Batch, Begin, Setup, Skip, NextCondition, BatchDone, Finish, Outcome, Ends,
              Killed, Try, ApplyNetworkProfile, DeleteOld, Install, LimitRate, Applied,
              ApplyFails, ClockStart, ClockProbe, ClockStop, ClockStopFails, StartProcess,
              CheckTransport, StartSampler, SamplersStarted, Measure, Fetch, StopSampler,
              SamplersStopped, Correct, Finally, FinallySamplers, StopLabel, LabelsStopped,
              FinallyNetwork, vars
<1>4. \/ shaping = "unconstrained" \/ pc \in {"dead", "limit"}
      \/ netState /\ pc \in UnderProfile \cup {"finSamplers", "finLabels", "finNetwork"}
  BY <1>2, <1>3 DEF ShapingCleared
<1>5. CASE Batch \/ Ends \/ Killed \/ UNCHANGED vars
  BY <1>4, <1>5 DEF Batch, Begin, Setup, Skip, NextCondition, BatchDone, Finish, Outcome, Ends,
              Killed, vars, UnderProfile, Probing
<1>6. CASE DeleteOld \/ Install \/ LimitRate
  BY <1>4, <1>6 DEF DeleteOld, Install, LimitRate, Applied, Fault, UnderProfile, Probing
<1>7. ~ApplyFails /\ ~StopTimesOut
  BY DEF ApplyFails, StopTimesOut, Fault
<1>8. CASE ClockStart \/ ClockProbe \/ ClockStop \/ ClockStopFails
  BY <1>4, <1>8 DEF ClockStart, ClockProbe, ClockStop, ClockStopFails, Raise, UnderProfile, Probing
<1>9. CASE StartProcess \/ CheckTransport \/ StartSampler \/ SamplersStarted
  BY <1>4, <1>9 DEF StartProcess, CheckTransport, StartSampler, SamplersStarted, Raise,
                    UnderProfile, Probing
<1>10. CASE Measure \/ Fetch \/ StopSampler \/ SamplersStopped \/ Correct
  BY <1>4, <1>7, <1>10 DEF Measure, Fetch, StopSampler, SamplersStopped, Correct, Raise,
                           UnderProfile, Probing
<1>11. CASE Finally
  <2>1. CASE FinallySamplers \/ StopLabel \/ LabelsStopped
    BY <1>4, <1>7, <2>1 DEF FinallySamplers, StopLabel, LabelsStopped, UnderProfile, Probing
  <2>2. CASE FinallyNetwork
    <3>1. pc = "finNetwork" /\ (shaping' = "unconstrained" \/ (~netState /\ shaping' = shaping))
      BY <2>2 DEF FinallyNetwork, Fault
    <3> QED BY <1>4, <3>1
  <2> QED BY <1>11, <2>1, <2>2 DEF Finally
<1> QED BY <1>1, <1>5, <1>6, <1>7, <1>8, <1>9, <1>10, <1>11 DEF Next, Try,
                                                                     ApplyNetworkProfile

LEMMA NothingRunsNext == NothingRuns /\ [Next]_vars => NothingRuns'
<1> SUFFICES ASSUME NothingRuns, [Next]_vars, pc' \in {"setup", "exit"}, "stop" \notin seen'
             PROVE  running' = {}
  BY DEF NothingRuns
<1>1. CASE Begin \/ Finish
  BY <1>1 DEF Begin, Finish, StopAll, Fault
<1>2. CASE Setup
  BY <1>2 DEF Setup, NothingRuns, Fault, NoFault, faultVars
<1>3. CASE Ends \/ UNCHANGED vars
  BY <1>3 DEF Ends, Fault, vars, NothingRuns, faultVars
<1>4. CASE Skip \/ NextCondition \/ BatchDone \/ Outcome \/ Killed \/ RunAgain
  BY <1>4 DEF Skip, NextCondition, BatchDone, Outcome, Killed, RunAgain
<1>5. CASE Try
  BY <1>5 DEF Try, ApplyNetworkProfile, DeleteOld, Install, LimitRate, Applied, ApplyFails,
              ClockStart, ClockProbe, ClockStop, ClockStopFails, StartProcess, CheckTransport,
              StartSampler, SamplersStarted, Measure, Fetch, StopSampler, SamplersStopped,
              Correct, Raise
<1>6. CASE Finally
  BY <1>6 DEF Finally, FinallySamplers, StopLabel, LabelsStopped, FinallyNetwork
<1> QED BY <1>1, <1>2, <1>3, <1>4, <1>5, <1>6 DEF Next, Batch

-----------------------------------------------------------------------------
(* Corrections.  Nothing is accepted of the condition in progress, and it  *)
(* reaches its end without an exception only through Correct.              *)
LEMMA CorrectedNext == Types /\ Corrected /\ [Next]_vars => Corrected'
<1> SUFFICES ASSUME Types, Corrected, [Next]_vars PROVE Corrected'
  OBVIOUS
<1> USE DEF condVars, batchVars, fileVars, InCondition, Installing, UnderProfile, Probing,
            Finishing
<1>1. CASE UNCHANGED <<accepted, corrected, rejected, cond, run>> /\ pc' \notin InCondition
  BY <1>1 DEF Corrected, AcceptedIsCorrected
<1>2. CASE Begin
  BY <1>2 DEF Begin, Corrected, AcceptedIsCorrected
<1>3. CASE Setup \/ Skip \/ BatchDone \/ Finish \/ Killed
  BY <1>1, <1>3 DEF Setup, Skip, BatchDone, Finish, Killed
<1>4. CASE RunAgain
  BY <1>4 DEF RunAgain, Corrected, AcceptedIsCorrected
<1>5. CASE NextCondition
  BY <1>5 DEF NextCondition, Types, Corrected, AcceptedIsCorrected
<1>6. CASE Outcome
  BY <1>6 DEF Outcome, Types, Corrected, AcceptedIsCorrected
<1>7. CASE \/ UNCHANGED vars \/ Ends
           \/ ApplyNetworkProfile \/ ClockStart \/ ClockProbe \/ ClockStopFails
           \/ StartProcess \/ CheckTransport \/ StartSampler \/ SamplersStarted
           \/ Measure \/ StopSampler \/ SamplersStopped \/ Finally
  <2>1. /\ UNCHANGED <<accepted, corrected, rejected, cond, run>>
        /\ pc' \in InCondition => pc \in InCondition
        /\ pc' = "correct" => pc = "correct"
        /\ pc' \in Finishing /\ ~exc' /\ cond.kind # "control" => pc \in Finishing /\ ~exc
    BY <1>7 DEF vars, Ends, ApplyNetworkProfile, DeleteOld, Install, LimitRate, Applied,
                ApplyFails, ClockStart, ClockProbe, ClockStopFails, StartProcess, CheckTransport,
                StartSampler, SamplersStarted, Measure, StopSampler, SamplersStopped, Finally,
                FinallySamplers, StopLabel, LabelsStopped, FinallyNetwork, Raise
  <2> QED BY <2>1 DEF Corrected, AcceptedIsCorrected
<1>8. CASE ClockStop
  BY <1>8 DEF ClockStop, Raise, Types, Corrected, AcceptedIsCorrected
<1>9. CASE Fetch
  BY <1>9 DEF Fetch, Types, Corrected, AcceptedIsCorrected
<1>10. CASE Correct
  BY <1>10 DEF Correct, Raise, Types, Corrected, AcceptedIsCorrected
<1> QED BY <1>2, <1>3, <1>4, <1>5, <1>6, <1>7, <1>8, <1>9, <1>10 DEF Next, Batch, Try

-----------------------------------------------------------------------------
(* The plan.  Each step that main has passed started its process, and all  *)
(* that was started is recorded when the last one has been.                *)
LEMMA PlanInit == Init => PlanFollowed
BY DEF Init, PlanFollowed, InCondition, Installing, UnderProfile, Probing, Finishing

(* The first step of a plan.                                               *)
LEMMA PlanBegins ==
    ASSUME Types, pc \in InCondition, step = 1
    PROVE  step \in DOMAIN Plan(cond) /\ 1 .. step - 1 = {}
<1>1. cond \in Conditions
  BY DEF Types
<1>2. Plan(cond) \in Seq(Steps) /\ Len(Plan(cond)) \in DOMAIN Plan(cond)
  BY <1>1, PlanSteps DEF StepsOf
<1> QED BY <1>2

(* A process is started: what is known of the steps passed includes this   *)
(* one, and the last step leaves all processes started and recorded.       *)
LEMMA StartProcessFollows ==
    ASSUME Types, PlanFollowed, StartProcess, pc' # "finSamplers"
    PROVE  PlanFollowed'
<1> DEFINE plan == Plan(cond)
           record == Current.record
           s(i) == plan[i]
<1>1. /\ pc = "start" /\ cond \in Conditions /\ cond' = cond
      /\ plan \in Seq(Steps) /\ step \in DOMAIN plan /\ step \in Nat \ {0}
      /\ Current = plan[step] /\ record \in Seq(RoleNames)
      /\ Current.start # "check" /\ Current.start \in Roles(cond)
  BY StartFacts, PlanSteps DEF StartProcess, StepsOf, Types, Steps
<1>2. /\ running' = running \cup {Process(cond, Current.start)} /\ UNCHANGED seen
      /\ labels' = labels \o [i \in DOMAIN record |-> Process(cond, record[i])]
      /\ step' = IF step = Len(plan) THEN 1 ELSE step + 1
      /\ pc' = IF step = Len(plan) THEN "samplers" ELSE "start"
  BY DEF StartProcess, Started, NoFault, faultVars, Raise
<1>3. \A p : Has(labels', p) <=> \/ Has(labels, p)
                                  \/ \E k \in DOMAIN record : p = Process(cond, record[k])
  <2>1. LET new == labels \o [i \in DOMAIN record |-> Process(cond, record[i])] IN
        \A p : Has(new, p) <=> \/ Has(labels, p)
                               \/ \E k \in DOMAIN record : p = Process(cond, record[k])
    BY <1>1, RecordedLabels DEF Types
  <2> QED BY <1>2, <2>1
<1>4. \A k \in DOMAIN record : record[k] \in Roles(cond)
  <2>1. \A k \in DOMAIN record : \E i \in DOMAIN plan : plan[i].start = record[k]
    BY <1>1, PlanSteps DEF StepsOf
  <2>2. \A k \in DOMAIN record : record[k] # "check"
    BY <1>1 DEF RoleNames, OnHub, OnReceiver
  <2> QED BY <2>1, <2>2 DEF Roles
<1>5. \A p \in Processes : Has(labels', p) => \E role \in Roles(cond) : p = Process(cond, role)
  BY <1>1, <1>3, <1>4 DEF PlanFollowed, Labelled, InCondition, Installing, UnderProfile
<1>6. \A i \in 1 .. step :
          /\ plan[i].start # "check" => Process(cond, plan[i].start) \in running' \/ "ended" \in seen'
          /\ \A k \in DOMAIN plan[i].record : Has(labels', Process(cond, plan[i].record[k]))
  <2> TAKE i \in 1 .. step
  <2>1. CASE i = step
    BY <1>1, <1>2, <1>3, <2>1 DEF Runs
  <2>2. CASE i \in 1 .. step - 1
    BY <1>1, <1>2, <1>3, <2>2 DEF PlanFollowed, Labelled, Runs
  <2> QED BY <1>1, <2>1, <2>2
<1> HIDE DEF record
<1>7. CASE step = Len(plan)
  <2>1. pc' = "samplers" /\ step' = 1 /\ DOMAIN plan = 1 .. step
    BY <1>1, <1>2, <1>7
  <2>2. \A role \in Roles(cond) : \E i \in 1 .. step : plan[i].start = role /\ role # "check"
    BY <2>1 DEF Roles
  <2>3. \A role \in Roles(cond) : Process(cond, role) \in running' \/ "ended" \in seen'
    BY <1>6, <2>2
  <2>4. \A role \in Roles(cond) :
            \E j \in 1 .. step : \E k \in DOMAIN plan[j].record : plan[j].record[k] = role
    <3>1. \A i \in DOMAIN plan : plan[i].start # "check" =>
              \E j \in DOMAIN plan : \E k \in DOMAIN plan[j].record :
                  plan[j].record[k] = plan[i].start
      BY <1>1, PlanSteps DEF StepsOf
    <3> QED BY <2>1, <2>2, <3>1
  <2>5. \A role \in Roles(cond) : Has(labels', Process(cond, role))
    BY <1>6, <2>4
  <2>6. \A i \in (DOMAIN SampledNodes)' : ~(i < step')
    <3>1. Types'
      BY TypeNext DEF Next, Try
    <3>2. (Types => SampledNodes \in Seq(Nodes))'
      BY SampledNodesType, PTL
    <3>3. SampledNodes' \in Seq(Nodes)
      BY <3>1, <3>2
    <3> QED BY <2>1, <3>3
  <2> QED BY <1>1, <1>5, <2>1, <2>3, <2>5, <2>6 DEF PlanFollowed, Labelled, Runs, Probing,
                                                    Installing
<1>8. CASE step # Len(plan)
  <2>1. pc' = "start" /\ step' = step + 1 /\ step' \in DOMAIN plan /\ 1 .. step' - 1 = 1 .. step
    BY <1>1, <1>2, <1>8
  <2> QED BY <1>1, <1>5, <1>6, <2>1 DEF PlanFollowed, Labelled, Runs, Probing, Installing
<1> QED BY <1>7, <1>8

(* The samplers' steps; every labelled process has a node that is sampled. *)
LEMMA SamplersFollow ==
    ASSUME Types, PlanFollowed, StartSampler \/ SamplersStarted
    PROVE  PlanFollowed'
<1> USE DEF batchVars, fileVars, faultVars, InCondition, Installing, UnderProfile, Probing,
            Finishing
<1>1. /\ pc = "samplers" /\ UNCHANGED <<cond, phase, labels>>
      /\ running \subseteq running' /\ seen \subseteq seen'
      /\ \A p \in Processes : Has(labels, p) => \E role \in Roles(cond) : p = Process(cond, role)
      /\ \A role \in Roles(cond) :
             Runs(Process(cond, role)) /\ Has(labels, Process(cond, role))
      /\ \A i \in DOMAIN SampledNodes : i < step => Runs(Sampler(cond, SampledNodes[i]))
      /\ step \in Nat \ {0} /\ SampledNodes \in Seq(Nodes)
  BY SampledNodesType DEF StartSampler, SamplersStarted, Started, StartFails, PlanFollowed, Types,
                          Labelled, Runs, Fault, NoFault
<1>2. SampledNodes' = SampledNodes
  BY <1>1 DEF SampledNodes
<1>3. CASE StartSampler
  <2>1. CASE pc' = "finSamplers"
    BY <1>1, <2>1 DEF PlanFollowed, Labelled
  <2>2. CASE pc' # "finSamplers"
    <3>1. /\ pc' = "samplers" /\ step' = step + 1
          /\ Sampler(cond, SampledNodes[step]) \in running'
      BY <1>1, <1>3, <2>2 DEF StartSampler, Started, Raise
    <3>2. \A i \in DOMAIN SampledNodes : i < step' => i < step \/ i = step
      BY <1>1, <3>1
    <3> QED BY <1>1, <1>2, <3>1, <3>2 DEF PlanFollowed, Labelled, Runs
  <2> QED BY <2>1, <2>2
<1>4. CASE SamplersStarted
  <2>1. pc' = "measure" /\ step' = 1 /\ step > Len(SampledNodes)
    BY <1>4 DEF SamplersStarted
  <2>2. \A i \in DOMAIN SampledNodes : Runs(Sampler(cond, SampledNodes[i]))
    BY <1>1, <2>1
  <2>3. \A role \in Roles(cond) : Has(SampledNodes, NodeOf(role))
    <3>1. \A role \in Roles(cond) : Has(SampledNodes, Process(cond, role).node)
      BY <1>1, SampledNodesFacts DEF Types, Labelled
    <3> QED BY <3>1 DEF Process
  <2>4. \A role \in Roles(cond) : Runs(Sampler(cond, NodeOf(role)))
    BY <2>2, <2>3 DEF Has
  <2> QED BY <1>1, <2>1, <2>4 DEF PlanFollowed, Labelled, Runs
<1> QED BY <1>3, <1>4

LEMMA PlanNext == Types /\ PlanFollowed /\ [Next]_vars => PlanFollowed'
<1> SUFFICES ASSUME Types, PlanFollowed, [Next]_vars PROVE PlanFollowed'
  OBVIOUS
<1> USE DEF batchVars, condVars, fileVars, faultVars, InCondition, Installing, UnderProfile,
            Probing, Finishing
<1>1. CASE UNCHANGED vars
  BY <1>1 DEF vars, PlanFollowed, Labelled, Runs, SampledNodes
<1>2. CASE Batch \/ Killed \/ RunAgain
  <2>1. CASE NextCondition
    BY <2>1, NoElement DEF NextCondition, PlanFollowed, Labelled
  <2>2. CASE ~NextCondition
    <3>1. pc' \notin InCondition
      BY <1>2, <2>2 DEF Batch, Begin, Setup, Skip, BatchDone, Finish, Outcome, Killed, RunAgain
    <3> QED BY <3>1 DEF PlanFollowed
  <2> QED BY <2>1, <2>2
<1>3. CASE ApplyNetworkProfile \/ ClockStart \/ ClockProbe \/ ClockStop \/ ClockStopFails
  <2>1. /\ UNCHANGED <<cond, step, phase, labels>> /\ pc \in Installing \cup Probing
        /\ pc' \in Installing \cup Probing \cup {"start", "correct", "finSamplers"}
        /\ pc' \in Installing => pc \in Installing
        /\ pc' \in Installing \cup Probing /\ phase = "pre" => step = 1
        /\ pc' = "start" => step = 1
    BY <1>3 DEF ApplyNetworkProfile, DeleteOld, Install, LimitRate, Applied, ApplyFails,
                ClockStart, ClockProbe, ClockStop, ClockStopFails, Raise, PlanFollowed
  <2>2. pc' = "start" => step' \in DOMAIN Plan(cond') /\ 1 .. step' - 1 = {}
    BY <2>1, PlanBegins
  <2> QED BY <2>1, <2>2 DEF PlanFollowed, Labelled
<1>4. CASE StartProcess
  <2>1. CASE pc' = "finSamplers"
    BY <1>4, <2>1 DEF StartProcess, PlanFollowed, Labelled
  <2> QED BY <1>4, <2>1, StartProcessFollows
<1>5. CASE CheckTransport
  <2>1. CASE pc' = "finSamplers"
    BY <1>5, <2>1 DEF CheckTransport, Raise, PlanFollowed, Labelled
  <2>2. CASE pc' # "finSamplers"
    <3>1. /\ pc = "start" /\ pc' = "start" /\ step' = step + 1 /\ Current.start = "check"
          /\ UNCHANGED <<cond, phase, labels, running, seen>>
      BY <1>5, <2>2 DEF CheckTransport, NoFault, Raise
    <3>2. /\ Plan(cond) \in Seq(Steps) /\ Current = Plan(cond)[step]
          /\ step \in DOMAIN Plan(cond) /\ step # Len(Plan(cond)) /\ step \in Nat \ {0}
      BY <3>1, StartFacts, PlanSteps DEF StepsOf, Types
    <3>3. DOMAIN Current.record = {}
      <4>1. /\ \A k \in DOMAIN Current.record : Current.record[k] \in RoleNames
            /\ \/ Current.record = <<>> \/ SelfRecorded(Current)
               \/ Current.start = "rx_bridge"
        BY <3>1, <3>2, StartFacts, PlanSteps DEF StepsOf, Steps
      <4>2. "check" \notin RoleNames
        BY DEF RoleNames, OnHub, OnReceiver
      <4> QED BY <3>1, <4>1, <4>2 DEF SelfRecorded
    <3>4. step' \in DOMAIN Plan(cond) /\ \A i \in 1 .. step' - 1 : i = step \/ i \in 1 .. step - 1
      BY <3>1, <3>2
    <3>5. \A i \in 1 .. step' - 1 :
              /\ Plan(cond)[i].start # "check" => Runs(Process(cond, Plan(cond)[i].start))
              /\ \A k \in DOMAIN Plan(cond)[i].record :
                     Has(labels, Process(cond, Plan(cond)[i].record[k]))
      BY <3>1, <3>2, <3>3, <3>4 DEF PlanFollowed, Labelled
    <3> QED BY <3>1, <3>4, <3>5 DEF PlanFollowed, Labelled, Runs
  <2> QED BY <2>1, <2>2
<1>6. CASE StartSampler \/ SamplersStarted
  BY <1>6, SamplersFollow
<1>7. CASE Measure \/ Fetch \/ StopSampler \/ SamplersStopped \/ Correct
  BY <1>7 DEF Measure, Fetch, StopSampler, SamplersStopped, Correct, Raise, PlanFollowed, Labelled
<1>8. CASE Finally
  <2>1. CASE StopLabel
    <3>1. \A p : Has(labels', p) => Has(labels, p)
      <4>1. /\ labels' \in {labels, SubSeq(labels, 1, Len(labels) - 1)}
            /\ labels \in Seq(Processes) /\ labels # <<>>
        BY <2>1 DEF StopLabel, Types
      <4> QED BY <4>1, ShorterHas
    <3> QED BY <2>1, <3>1 DEF StopLabel, PlanFollowed, Labelled
  <2>2. CASE FinallySamplers \/ LabelsStopped \/ FinallyNetwork
    BY <2>2 DEF FinallySamplers, LabelsStopped, FinallyNetwork, PlanFollowed, Labelled
  <2> QED BY <1>8, <2>1, <2>2 DEF Finally
<1>9. CASE Ends
  BY <1>9 DEF Ends, Fault, PlanFollowed, Labelled, Runs, SampledNodes
<1> QED BY <1>1, <1>2, <1>3, <1>4, <1>5, <1>6, <1>7, <1>8, <1>9 DEF Next, Try

-----------------------------------------------------------------------------
(* Strays.  A process is started and recorded before it is anyone's to     *)
(* stop, and what is stopped is gone, when no stop fails.                  *)

(* A step that starts nothing, and lets go of no one who runs on.          *)
LEMMA StraysKept ==
    ASSUME NoStrays, pc \in InCondition, pc' \in InCondition,
           UNCHANGED <<labels, cond, accepted, todo>>, running' \subseteq running,
           exc => exc',
           pc = "start" => exc' \/ pc' = "start",
           pc \in {"samplers", "measure", "fetch", "stopSamplers"} => exc',
           \/ pc \notin {"probe", "clockStop"} \/ pc' \in {"probe", "clockStop"}
           \/ ClockServer(cond) \notin running',
           pc' \in {"finNetwork", "outcome"} => labels = <<>>
    PROVE  NoStrays'
<1>1. pc' \notin {"next", "stopAll"} /\ (\A p \in running' : p.of \notin todo')
  BY DEF NoStrays, InCondition, Installing, UnderProfile, Probing, Finishing
<1>2. ASSUME NEW p \in running', p.of = cond PROVE Held(p)'
  <2>1. Held(p)
    BY <1>2 DEF NoStrays
  <2> QED BY <1>2, <2>1 DEF Held, HeldSampler, HeldProcess, Labelled
<1>3. ASSUME NEW p \in running', p.of # cond PROVE Leftover(p)'
  BY <1>3 DEF NoStrays, Leftover
<1> QED BY <1>1, <1>2, <1>3 DEF NoStrays

(* Between conditions only what failed conditions left is running.         *)
LEMMA BatchStrays ==
    ASSUME Types, NothingRuns, Corrected, NoStrays, Batch, seen \cap {"lost", "stop"} = {},
           seen' \cap {"lost", "stop"} = {}
    PROVE  NoStrays'
<1> USE DEF NoStrays, InCondition, Installing, UnderProfile, Probing, Finishing, batchVars,
            condVars, fileVars, faultVars
<1>1. CASE Begin \/ Finish \/ Setup
  BY <1>1 DEF Begin, Finish, Setup, NothingRuns
<1>2. CASE Skip \/ BatchDone
  BY <1>2 DEF Skip, BatchDone, Leftover
<1>3. CASE NextCondition
  <2>1. PICK c \in todo : todo' = todo \ {c} /\ cond' = c /\ accepted' = [accepted EXCEPT ![c] = 0]
    BY <1>3 DEF NextCondition
  <2>2. pc = "next" /\ pc' = "shape" /\ running' = running
    BY <1>3 DEF NextCondition
  <2>3. \A p \in running : p.of # c /\ p.of \in Conditions /\ Leftover(p)
    BY <2>2 DEF Types, Processes
  <2>4. \A p \in running : Leftover(p)'
    BY <2>1, <2>3 DEF Leftover, Types
  <2> QED BY <2>1, <2>2, <2>3, <2>4
<1>4. CASE Outcome
  <2>1. /\ pc = "outcome" /\ labels = <<>> /\ cond \in Conditions
        /\ UNCHANGED <<running, todo, cond, exc, labels>> /\ pc' \in {"next", "stopAll"}
        /\ accepted' = [accepted EXCEPT ![cond] = IF exc THEN 0 ELSE run]
    BY <1>4 DEF Outcome, Types
  <2>2. ASSUME NEW p \in running PROVE Leftover(p)'
    <3>1. p.of \in Conditions
      BY DEF Types, Processes
    <3>2. CASE p.of = cond
      <4>1. /\ exc
            /\ \/ p.role = "resources"
               \/ p.role = "rx_bridge" /\ p.of.cloud
        BY <2>1, <3>2, NoElement DEF Held, HeldSampler, HeldProcess, Labelled
      <4>2. accepted'[p.of] = 0
        BY <2>1, <3>2, <4>1 DEF Types
      <4> QED BY <4>1, <4>2 DEF Leftover
    <3>3. CASE p.of # cond
      BY <2>1, <3>1, <3>3 DEF Leftover, Types
    <3> QED BY <3>2, <3>3
  <2> QED BY <2>1, <2>2
<1> QED BY <1>1, <1>2, <1>3, <1>4 DEF Batch

(* A process of the plan is started: it is recorded, or is the receiver's  *)
(* bridge of a cloud condition, which is recorded before the plan ends.    *)
LEMMA StartStrays ==
    ASSUME Types, PlanFollowed, PlanFollowed', Corrected, NoStrays, StartProcess,
           seen' \cap {"lost", "stop"} = {}
    PROVE  NoStrays'
<1> USE DEF batchVars, fileVars
<1> DEFINE record == Current.record
<1>0. PICK new : new = Process(cond, Current.start)
  OBVIOUS
<1>1. /\ pc = "start" /\ cond \in Conditions /\ Current.start \in Roles(cond)
      /\ UNCHANGED <<cond, accepted, todo>> /\ new \in Processes
      /\ new.of = cond /\ new.role \notin {"resources", "check"} /\ cond \notin todo
  <2>1. Current.start \in RoleNames
    BY StartFacts, ProcessTypes DEF StartProcess
  <2> QED BY <1>0, <2>1, StartFacts DEF StartProcess, Types, Process, RoleNames, OnHub, OnReceiver,
                  InCondition, Installing, UnderProfile
<1>2. CASE pc' = "finSamplers"
  <2>1. UNCHANGED <<running, labels>> /\ exc'
    BY <1>1, <1>2 DEF StartProcess, StartFails, Fault, Raise
  <2> QED BY <1>1, <1>2, <2>1, StraysKept DEF InCondition, Installing, UnderProfile, Finishing
<1>3. CASE pc' # "finSamplers"
  <2>1. /\ running' = running \cup {new} /\ exc' = exc /\ pc' \in {"start", "samplers"}
        /\ labels' = labels \o [i \in DOMAIN record |-> Process(cond, record[i])]
    BY <1>0, <1>3 DEF StartProcess, Started, Raise
  <2>2. \A p : Has(labels', p) <=> \/ Has(labels, p)
                                  \/ \E k \in DOMAIN record : p = Process(cond, record[k])
    <3>1. record \in Seq(RoleNames) /\ labels \in Seq(Processes)
      BY <1>1, StartFacts DEF Types, Steps
    <3>2. LET all == labels \o [i \in DOMAIN record |-> Process(cond, record[i])] IN
          \A p : Has(all, p) <=> \/ Has(labels, p)
                                 \/ \E k \in DOMAIN record : p = Process(cond, record[k])
      BY <1>1, <3>1, RecordedLabels
    <3> QED BY <2>1, <3>2
  <2>3. \/ \E k \in DOMAIN record : record[k] = Current.start
        \/ Current.start = "rx_bridge" /\ cond.cloud
    <3>1. /\ Current = Plan(cond)[step] /\ step \in DOMAIN Plan(cond) /\ Current.start # "check"
      BY <1>1, StartFacts DEF StartProcess
    <3> QED BY <1>1, <3>1, PlanSteps DEF StepsOf, SelfRecorded
  <2> HIDE DEF record
  <2>4. HeldProcess(new)'
    <3>1. CASE Has(labels', new)
      BY <3>1 DEF HeldProcess, Labelled
    <3>2. CASE ~Has(labels', new)
      <4>1. new.role = "rx_bridge" /\ new.of.cloud
        BY <1>0, <2>2, <2>3, <3>2 DEF Process
      <4>2. pc' = "start"
        BY <1>0, <1>1, <2>1, <3>2 DEF PlanFollowed, Labelled
      <4> QED BY <1>0, <1>1, <4>1, <4>2 DEF HeldProcess
    <3> QED BY <3>1, <3>2
  <2>5. ASSUME NEW p \in running, p.of = cond PROVE Held(p)'
    <3>1. Held(p)
      BY <1>1, <2>5 DEF NoStrays, InCondition, Installing, UnderProfile
    <3>2. CASE p.role = "resources"
      BY <1>1, <2>1, <3>1, <3>2 DEF Held, HeldSampler
    <3>3. CASE p.role # "resources"
      <4>1. Has(labels, p) => Has(labels', p)
        BY <2>2
      <4>2. pc' = "samplers" => \A role \in Roles(cond) : Has(labels', Process(cond, role))
        BY <1>1 DEF PlanFollowed, Labelled
      <4> QED BY <1>1, <2>1, <3>1, <3>3, <4>1, <4>2 DEF Held, HeldProcess, Labelled
    <3> QED BY <3>2, <3>3
  <2>6. ASSUME NEW p \in running, p.of # cond PROVE Leftover(p)'
    BY <1>1, <2>6 DEF NoStrays, Leftover, InCondition, Installing, UnderProfile
  <2>7. \A p \in running' : p.of \notin todo
    BY <1>1, <2>1 DEF NoStrays, InCondition, Installing, UnderProfile
  <2> QED BY <1>1, <2>1, <2>4, <2>5, <2>6, <2>7 DEF NoStrays, Held
<1> QED BY <1>2, <1>3

(* A sampler is started: begun holds it.                                   *)
LEMMA SamplerStrays ==
    ASSUME Types, NoStrays, StartSampler, seen' \cap {"lost", "stop"} = {}
    PROVE  NoStrays'
<1> USE DEF batchVars, fileVars, InCondition, Installing, UnderProfile
<1>0. PICK new : new = Sampler(cond, SampledNodes[step])
  OBVIOUS
<1>1. /\ pc = "samplers" /\ UNCHANGED <<cond, accepted, todo, labels>> /\ new \in Processes
      /\ new.of = cond /\ new.role = "resources" /\ cond \notin todo
  BY <1>0, SamplerFacts DEF StartSampler, Types, Sampler
<1>2. CASE pc' = "finSamplers"
  <2>1. running' = running /\ exc'
    BY <1>1, <1>2 DEF StartSampler, StartFails, Fault, Raise
  <2> QED BY <1>1, <1>2, <2>1, StraysKept DEF Finishing
<1>3. CASE pc' # "finSamplers"
  <2>1. /\ running' = running \cup {new} /\ exc' = exc /\ pc' = "samplers"
        /\ begun' = Append(begun, new)
    BY <1>0, <1>1, <1>3 DEF StartSampler, Started, Raise
  <2>2. Has(begun', new) /\ \A p : Has(begun, p) => Has(begun', p)
    <3>1. begun \in Seq(Processes)
      BY DEF Types
    <3> QED BY <1>1, <2>1, <3>1 DEF Has
  <2>3. ASSUME NEW p \in running', p.of = cond PROVE Held(p)'
    <3>1. CASE p = new
      BY <1>1, <2>1, <2>2, <3>1 DEF Held, HeldSampler
    <3>2. CASE p # new
      <4>1. Held(p)
        BY <1>1, <2>1, <2>3, <3>2 DEF NoStrays
      <4> QED BY <1>1, <2>1, <2>2, <4>1 DEF Held, HeldSampler, HeldProcess, Labelled
    <3> QED BY <3>1, <3>2
  <2>4. ASSUME NEW p \in running', p.of # cond PROVE Leftover(p)'
    BY <1>1, <2>1, <2>4 DEF NoStrays, Leftover
  <2>5. \A p \in running' : p.of \notin todo
    BY <1>1, <2>1 DEF NoStrays
  <2> QED BY <1>1, <2>1, <2>3, <2>4, <2>5 DEF NoStrays
<1> QED BY <1>2, <1>3

(* The samplers pass to their list and leave it when they are stopped.     *)
LEMMA SamplersStrays ==
    ASSUME Types, PlanFollowed, NoStrays,
           SamplersStarted \/ Measure \/ Fetch \/ StopSampler \/ SamplersStopped,
           seen' \cap {"lost", "stop"} = {}
    PROVE  NoStrays'
<1> USE DEF batchVars, condVars, fileVars, InCondition, Installing, UnderProfile, Finishing
<1>1. ~StopTimesOut
  BY DEF StopTimesOut, Fault
<1>2. /\ UNCHANGED <<cond, accepted, todo, labels, exc>> /\ running' \subseteq running
      /\ pc \in {"samplers", "measure", "fetch", "stopSamplers", "finSamplers"}
      /\ pc' \in {"measure", "fetch", "stopSamplers", "clock", "finSamplers"}
  BY <1>1 DEF SamplersStarted, Measure, Fetch, StopSampler, SamplersStopped, Stopped
<1>3. ASSUME NEW p \in running', HeldSampler(p) PROVE HeldSampler(p)'
  <2> USE DEF HeldSampler
  <2>1. CASE SamplersStarted
    BY <1>2, <1>3, <2>1 DEF SamplersStarted
  <2>2. CASE Measure
    BY <1>2, <1>3, <2>2 DEF Measure
  <2>3. CASE Fetch
    <3>1. /\ pc = "fetch" /\ pc' = "stopSamplers" /\ step = 1
          /\ UNCHANGED <<samplers, step, exc>>
      BY <2>3 DEF Fetch, PlanFollowed
    <3>2. DOMAIN samplers = 1 .. Len(samplers)
      BY DEF Types
    <3> QED BY <1>3, <3>1, <3>2 DEF Has
  <2>4. CASE StopSampler
    <3>1. /\ pc \in {"stopSamplers", "finSamplers"} /\ pc' = pc /\ step' = step + 1
          /\ UNCHANGED <<samplers, exc>> /\ p # samplers[step]
      BY <1>1, <2>4 DEF StopSampler, Stopped, Fault
    <3>2. step \in Nat /\ DOMAIN samplers = 1 .. Len(samplers) /\ Len(samplers) \in Nat
      BY DEF Types
    <3> QED BY <1>3, <3>1, <3>2
  <2>5. CASE SamplersStopped
    <3>1. pc = "stopSamplers" /\ step > Len(samplers) /\ exc' = exc
      BY <2>5 DEF SamplersStopped
    <3>2. step \in Nat /\ DOMAIN samplers = 1 .. Len(samplers) /\ Len(samplers) \in Nat
      BY DEF Types
    <3> QED BY <1>3, <3>1, <3>2
  <2> QED BY <2>1, <2>2, <2>3, <2>4, <2>5
<1>4. ASSUME NEW p \in running', p.of = cond PROVE Held(p)'
  BY <1>2, <1>3, <1>4 DEF NoStrays, Held, HeldProcess, Labelled
<1>5. ASSUME NEW p \in running', p.of # cond PROVE Leftover(p)'
  BY <1>2, <1>5 DEF NoStrays, Leftover
<1> QED BY <1>2, <1>4, <1>5 DEF NoStrays

(* Everything else a condition does.                                       *)
LEMMA OtherStrays ==
    ASSUME Types, Corrected, NoStrays, seen' \cap {"lost", "stop"} = {},
           \/ ApplyNetworkProfile \/ ClockStart \/ ClockProbe \/ ClockStop \/ ClockStopFails
           \/ CheckTransport \/ Correct \/ Finally
    PROVE  NoStrays'
<1> USE DEF batchVars, condVars, fileVars, faultVars, InCondition, Installing, UnderProfile,
            Probing, Finishing
<1>1. ~StopTimesOut /\ ~Fault("stop") /\ ~Fault("lost")
  BY DEF StopTimesOut, Fault
<1>2. CASE ApplyNetworkProfile \/ ClockProbe \/ CheckTransport \/ Correct
  BY <1>2, StraysKept DEF ApplyNetworkProfile, DeleteOld, Install, LimitRate, Applied, ApplyFails,
                          ClockProbe, CheckTransport, Correct, Raise
<1>3. CASE ClockStart
  <2>1. /\ pc = "clock" /\ cond \in Conditions \ todo
        /\ UNCHANGED <<labels, cond, accepted, todo, step, begun, samplers>>
    BY <1>3 DEF ClockStart, Types
  <2>2. CASE running' = running /\ exc' /\ pc' = "finSamplers"
    BY <2>1, <2>2, StraysKept
  <2>3. CASE running' = running \cup {ClockServer(cond)} /\ exc' = exc /\ pc' = "probe"
    <3>1. ASSUME NEW p \in running', p.of = cond PROVE Held(p)'
      <4>1. CASE p = ClockServer(cond)
        BY <2>1, <2>3, <4>1 DEF Held, HeldProcess, ClockServer
      <4>2. CASE p # ClockServer(cond)
        BY <2>1, <2>3, <3>1, <4>2 DEF NoStrays, Held, HeldProcess, HeldSampler, Labelled
      <4> QED BY <4>1, <4>2
    <3>2. ASSUME NEW p \in running', p.of # cond PROVE Leftover(p)'
      BY <2>1, <2>3, <3>2 DEF NoStrays, Leftover, ClockServer
    <3>3. \A p \in running' : p.of \notin todo
      BY <2>1, <2>3 DEF NoStrays, ClockServer
    <3> QED BY <2>1, <2>3, <3>1, <3>2, <3>3 DEF NoStrays
  <2> QED BY <1>1, <1>3, <2>2, <2>3 DEF ClockStart, Started, StartFails, Raise
<1>4. CASE ClockStop \/ ClockStopFails
  BY <1>1, <1>4, StraysKept DEF ClockStop, ClockStopFails, Stopped, Raise
<1>5. CASE StopLabel
  <2>1. /\ pc = "finLabels" /\ pc' = "finLabels" /\ labels # <<>> /\ labels \in Seq(Processes)
        /\ UNCHANGED <<cond, accepted, todo, exc, begun, samplers, step>>
        /\ running' = running \ {labels[Len(labels)]}
        /\ labels' = SubSeq(labels, 1, Len(labels) - 1)
    BY <1>1, <1>5 DEF StopLabel, Stopped, Types
  <2>2. \A p \in running' : Has(labels, p) => Has(labels', p)
    BY <2>1, ShorterHas
  <2>3. ASSUME NEW p \in running', p.of = cond PROVE Held(p)'
    BY <2>1, <2>2, <2>3 DEF NoStrays, Held, HeldProcess, HeldSampler, Labelled
  <2>4. ASSUME NEW p \in running', p.of # cond PROVE Leftover(p)'
    BY <2>1, <2>4 DEF NoStrays, Leftover
  <2>5. \A p \in running' : p.of \notin todo
    BY <2>1 DEF NoStrays
  <2> QED BY <2>1, <2>3, <2>4, <2>5 DEF NoStrays
<1>6. CASE FinallySamplers \/ LabelsStopped \/ FinallyNetwork
  <2>1. pc = "finNetwork" => labels = <<>>
    BY DEF NoStrays
  <2> QED BY <1>6, <2>1, StraysKept DEF FinallySamplers, LabelsStopped, FinallyNetwork
<1> QED BY <1>2, <1>3, <1>4, <1>5, <1>6 DEF Finally

LEMMA StraysNext ==
    Types /\ PlanFollowed /\ PlanFollowed' /\ NothingRuns /\ Corrected /\ Strays /\ [Next]_vars
        => Strays'
<1> SUFFICES ASSUME Types, PlanFollowed, PlanFollowed', NothingRuns, Corrected, Strays,
[Next]_vars, seen' \cap {"lost", "stop"} = {}
             PROVE  NoStrays'
  BY DEF Strays
<1>1. CASE RunAgain \/ Killed
  BY <1>1 DEF RunAgain, Killed, NoStrays, InCondition, Installing, UnderProfile, Probing, Finishing
<1>2. CASE ~RunAgain /\ ~Killed
  <2>1. seen \cap {"lost", "stop"} = {}
    BY <1>2, SeenGrows
  <2>2. NoStrays
    BY <2>1 DEF Strays
  <2>3. CASE Batch
    BY <2>1, <2>2, <2>3, BatchStrays
  <2>4. CASE Try
    BY <2>2, <2>4, OtherStrays, StartStrays, SamplerStrays, SamplersStrays DEF Try
  <2>5. CASE Finally
    BY <2>2, <2>5, OtherStrays
  <2>6. CASE UNCHANGED vars
    BY <2>2, <2>6 DEF vars, batchVars, condVars, fileVars, faultVars, NoStrays, Leftover, Held,
                      HeldSampler, HeldProcess, Labelled
  <2>7. CASE Ends
    BY <2>2, <2>7 DEF Ends, batchVars, condVars, fileVars, NoStrays, Leftover, Held,
                      HeldSampler, HeldProcess, Labelled
  <2> QED BY <1>2, <2>3, <2>4, <2>5, <2>6, <2>7 DEF Next
<1> QED BY <1>1, <1>2

-----------------------------------------------------------------------------
(* The inductive invariant.                                                *)
RunnerInv == /\ Types /\ ProfileInstalled /\ ShapingCleared /\ NothingRuns
             /\ Corrected /\ PlanFollowed /\ Strays

LEMMA RunnerInductive == Spec => []RunnerInv
<1>1. Init => RunnerInv
  <2> SUFFICES ASSUME Init PROVE RunnerInv
    OBVIOUS
  <2>1. pc = "begin" /\ shaping = "unconstrained" /\ \A c \in Conditions : accepted[c] = 0
    BY DEF Init
  <2>2. ProfileInstalled /\ ShapingCleared /\ NothingRuns /\ Corrected /\ Strays
    BY <2>1 DEF ProfileInstalled, ShapingCleared, NothingRuns, Corrected, AcceptedIsCorrected,
                Strays, NoStrays, InCondition, Installing, UnderProfile, Probing, Finishing
  <2> QED BY <2>2, TypeInit, PlanInit DEF RunnerInv
<1>2. RunnerInv /\ [Next]_vars => RunnerInv'
  BY TypeNext, ProfileNext, ClearedNext, NothingRunsNext, CorrectedNext, PlanNext, StraysNext
     DEF RunnerInv
<1> QED BY <1>1, <1>2, PTL DEF Spec

(***************************************************************************)
(* Whatever earlier conditions, failures and killed executions left on the *)
(* sender's interface, a measurement is taken under its own profile; a     *)
(* condition without one, when its own deletion of the old failed unseen,  *)
(* is measured under whatever was left.                                    *)
(***************************************************************************)
THEOREM MeasurementIsShaped == Spec => []ShapingMatches
<1>1. RunnerInv => ShapingMatches
  BY DEF RunnerInv, ProfileInstalled, UnderProfile, ShapingMatches
<1> QED BY <1>1, RunnerInductive, PTL

(***************************************************************************)
(* A measurement has all the processes of its plan and their samplers, if  *)
(* nothing has ended by itself in this execution; and nothing else of the  *)
(* benchmark runs but what failed conditions leave unrecorded (samplers,   *)
(* the receiver's bridge of a cloud condition), if no stop of this         *)
(* execution failed and no start was lost.                                 *)
(***************************************************************************)
THEOREM MeasurementIsAlone == Spec => []MeasuresAlone
<1>1. RunnerInv => MeasuresAlone
  <2> SUFFICES ASSUME RunnerInv, pc = "measure"
               PROVE  /\ "ended" \notin seen => Own(cond) \subseteq running
                      /\ seen \cap {"lost", "stop"} = {} =>
                             \A p \in running \ Own(cond) : Leftover(p)
    BY DEF MeasuresAlone
  <2>1. "ended" \notin seen => Own(cond) \subseteq running
    BY DEF RunnerInv, PlanFollowed, Runs, Own
  <2>2. ASSUME seen \cap {"lost", "stop"} = {}, NEW p \in running \ Own(cond) PROVE Leftover(p)
    <3>1. NoStrays /\ accepted[cond] = 0
      BY <2>2 DEF RunnerInv, Strays, Corrected, InCondition, Installing, UnderProfile
    <3>2. CASE p.of # cond
      BY <3>1, <3>2 DEF NoStrays, InCondition, Installing, UnderProfile
    <3>3. CASE p.of = cond
      <4>1. Held(p)
        BY <3>1, <3>3 DEF NoStrays, InCondition, Installing, UnderProfile
      <4>2. ~Labelled(p)
        BY <2>2 DEF RunnerInv, Types, PlanFollowed, Own, InCondition, Installing, UnderProfile
      <4> QED BY <3>1, <3>3, <4>1, <4>2 DEF Held, HeldProcess, Leftover
    <3> QED BY <3>2, <3>3
  <2> QED BY <2>1, <2>2
<1> QED BY <1>1, RunnerInductive, PTL

(***************************************************************************)
(* The program leaves no process behind if no stop of its execution failed;*)
(* and its first execution leaves no shaping if no stop failed and no      *)
(* command that installs or deletes a profile failed, seen or unseen.      *)
(***************************************************************************)
THEOREM RunnerExitsClean == Spec => []ExitsClean
<1>1. RunnerInv => ExitsClean
  BY DEF RunnerInv, NothingRuns, ShapingCleared, ExitsClean, UnderProfile, Probing
<1> QED BY <1>1, RunnerInductive, PTL

(***************************************************************************)
(* Over any number of executions, killed and resumed, a camera condition   *)
(* that ended without a failure has latencies corrected by the clock of    *)
(* the execution that accepted it.                                         *)
(***************************************************************************)
THEOREM AcceptedMeansCorrected == Spec => []AcceptedIsCorrected
<1>1. RunnerInv => AcceptedIsCorrected
  BY DEF RunnerInv, Corrected
<1> QED BY <1>1, RunnerInductive, PTL
================================================================================
