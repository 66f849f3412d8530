-------------------------- MODULE CloudLink_proofs --------------------------
(***************************************************************************)
(* TLAPS proofs about CloudLink: type correctness, and that the wanted     *)
(* subscriptions are the broker's, for any set of printers and any inputs. *)
(***************************************************************************)
EXTENDS CloudLink, TLAPS

\* What the loop thread's order of assignments maintains: connected_ outlives
\* the transport and is false before on_disconnect clears active_, the topics of
\* a lost connection are gone, and the broker's topics are active, the active
\* ones wanted.
Containment ==
    /\ link = "up" => connected
    /\ link = "down" => broker = {}
    /\ pc[Loop] = "clear" => ~connected
    /\ broker \subseteq active
    /\ active \subseteq subscribed

\* What apply_subscriptions_locked_ does to active_ and the broker's topics.
LEMMA ApplyFacts ==
    ASSUME TypeOK, NEW base \in SUBSET Devs, NEW want \in SUBSET Devs,
           base \subseteq want, broker \subseteq want,
           Apply(base, want)
    PROVE  /\ active' \in SUBSET Devs /\ broker' \in SUBSET Devs
           /\ base \subseteq active' /\ active' \subseteq want
           /\ link = "up" => active' = want /\ broker' = broker \cup (want \ base)
           /\ link = "down" => broker' = broker
BY DEF Apply, TypeOK

\* Every action keeps the types.
LEMMA TypeStep == TypeOK /\ Containment /\ [Next]_vars => TypeOK'
<1> SUFFICES ASSUME TypeOK, Containment, [Next]_vars PROVE TypeOK'
  OBVIOUS
<1> USE CloudAssumption DEF TypeOK, Threads, Pcs, Goto, Done, vars, sessVars,
        kickVars, noteVars, lanVars, thrVars
<1>1. CASE ConnectCloud
  BY <1>1 DEF ConnectCloud
<1>2. CASE ConnectCloudFails
  BY <1>2 DEF ConnectCloudFails
<1>3. CASE RegisterCallback
  BY <1>3 DEF RegisterCallback
<1>4. CASE Connack
  BY <1>4 DEF Connack
<1>5. CASE ConnackRefused
  BY <1>5 DEF ConnackRefused
<1>6. CASE LinkDrop
  BY <1>6 DEF LinkDrop
<1>7. ASSUME NEW d \in Devs \cup {NoDev}, BeginAdd(d) PROVE TypeOK'
  BY <1>7 DEF BeginAdd
<1>8. ASSUME NEW d \in Devs, BeginDel(d) PROVE TypeOK'
  BY <1>8 DEF BeginDel
<1>9. ASSUME NEW d \in Devs, SelectMachine(d) PROVE TypeOK'
  BY <1>9 DEF SelectMachine
<1>10. ASSUME NEW d \in Devs, CloudReport(d) PROVE TypeOK'
  BY <1>10 DEF CloudReport
<1>11. ASSUME NEW d \in Devs, LanReport(d) PROVE TypeOK'
  BY <1>11 DEF LanReport
<1>12. ASSUME NEW d \in Devs, LanSilent(d) PROVE TypeOK'
  BY <1>12 DEF LanSilent
<1>13. ASSUME NEW d \in Devs, LanLost(d) PROVE TypeOK'
  BY <1>13 DEF LanLost
<1>14. CASE DelSubscribe
  BY <1>14 DEF DelSubscribe
<1>15. CASE ConnackApply
  <2>1. Apply({}, subscribed) /\ {} \in SUBSET Devs /\ broker \subseteq subscribed
    BY <1>15 DEF ConnackApply, Containment
  <2>2. active' \in SUBSET Devs /\ broker' \in SUBSET Devs
    BY <2>1, ApplyFacts
  <2>3. QED
    BY <1>15, <2>2 DEF ConnackApply
<1>16. CASE OnDisconnect
  BY <1>16 DEF OnDisconnect
<1>17. CASE DisconnectClear
  BY <1>17 DEF DisconnectClear
<1>18. CASE DisconnectUnkick
  BY <1>18 DEF DisconnectUnkick
<1>19. CASE WatchdogTick
  BY <1>19 DEF WatchdogTick
<1>20. ASSUME NEW d \in Devs, WatchdogNext(d) PROVE TypeOK'
  BY <1>20 DEF WatchdogNext
<1>21. ASSUME NEW t \in Threads, AddSubscribe(t) PROVE TypeOK'
  <2>1. CASE session = "none"
    BY <1>21, <2>1 DEF AddSubscribe
  <2>2. CASE session # "none"
    <3>1. subscribed' \in SUBSET Devs /\ subscribed \subseteq subscribed'
      BY <1>21, <2>2 DEF AddSubscribe
    <3>2. active' \in SUBSET Devs /\ broker' \in SUBSET Devs
      <4>1. CASE connected
        <5>1. Apply(active, subscribed')
          BY <1>21, <2>2, <4>1 DEF AddSubscribe
        <5>2. active \subseteq subscribed' /\ broker \subseteq subscribed'
          BY <3>1 DEF Containment
        <5>3. QED
          BY <3>1, <5>1, <5>2, ApplyFacts
      <4>2. CASE ~connected
        BY <1>21, <2>2, <4>2 DEF AddSubscribe
      <4>3. QED
        BY <4>1, <4>2
    <3>3. QED
      BY <1>21, <2>2, <3>1, <3>2 DEF AddSubscribe
  <2>3. QED
    BY <2>1, <2>2
<1>22. ASSUME NEW t \in Threads, Failback(t) PROVE TypeOK'
  BY <1>22 DEF Failback
<1>23. ASSUME NEW t \in Threads, KickSnapshot(t) PROVE TypeOK'
  BY <1>23 DEF KickSnapshot
<1>24. ASSUME NEW t \in Threads, KickLatch(t) PROVE TypeOK'
  BY <1>24 DEF KickLatch
<1>25. ASSUME NEW t \in Threads, KickFinished(t) PROVE TypeOK'
  BY <1>25 DEF KickFinished
<1>26. ASSUME NEW t \in Threads, KickUnlatch(t) PROVE TypeOK'
  BY <1>26 DEF KickUnlatch
<1>27. ASSUME NEW t \in Threads, NEW d \in pend[t], KickSend(t, d) PROVE TypeOK'
  <2>1. d \in Devs
    BY <1>27
  <2>2. QED
    BY <1>27, <2>1 DEF KickSend
<1>28. CASE UNCHANGED vars
  BY <1>28
<1> HIDE CloudAssumption DEF TypeOK, Threads, Pcs
<1>29. QED
  BY <1>1, <1>2, <1>3, <1>4, <1>5, <1>6, <1>7, <1>8, <1>9, <1>10, <1>11, <1>12,
     <1>13, <1>14, <1>15, <1>16, <1>17, <1>18, <1>19, <1>20, <1>21, <1>22, <1>23,
     <1>24, <1>25, <1>26, <1>27, <1>28
  DEF Next, Environment, LoopStep, WatchdogStep, ThreadStep, KickStep

Applied == Containment /\ SubscriptionsApplied

\* The step neither ends the loop thread's CONNACK window nor starts the
\* disconnect callback.
WindowSame ==
    /\ pc'[Loop] # "apply" => pc[Loop] # "apply"
    /\ pc'[Loop] = "clear" => pc[Loop] = "clear"

\* A step that leaves the session alone, and does not end the CONNACK
\* callback's window, cannot disturb the invariant.
LEMMA SessionUntouched ==
    ASSUME Applied, UNCHANGED sessVars,
           WindowSame
    PROVE  Applied'
BY DEF WindowSame, Applied, Containment, SubscriptionsApplied, sessVars

\* A thread that goes from a position other than "apply" to another one keeps
\* the loop thread's window as it is.
LEMMA WindowKept ==
    ASSUME TypeOK, NEW t \in Threads, NEW w \in Pcs \ {"clear"},
           pc[t] # "apply", pc' = [pc EXCEPT ![t] = w]
    PROVE  WindowSame
BY DEF TypeOK, Threads, WindowSame

\* The threads are distinct members of Threads, and these are positions.
LEMMA ThreadFacts ==
    /\ Studio \in Threads /\ Lan \in Threads /\ Watchdog \in Threads /\ Loop \in Threads
    /\ {"idle", "unkick", "del2", "failback", "add", "snap", "latch", "send",
        "unlatch"} \subseteq Pcs \ {"clear"}
BY DEF Threads, Pcs

\* Steps of the threads that touch neither active_, subscribed_ nor the link.
LEMMA OtherSteps ==
    ASSUME TypeOK, Applied,
           \/ RegisterCallback \/ DisconnectUnkick \/ WatchdogTick \/ ConnackRefused
           \/ \E d \in Devs \cup {NoDev} : BeginAdd(d)
           \/ \E d \in Devs : \/ BeginDel(d) \/ SelectMachine(d) \/ CloudReport(d)
                              \/ LanReport(d) \/ LanSilent(d) \/ LanLost(d)
                              \/ WatchdogNext(d)
           \/ \E t \in Threads : Failback(t) \/ KickStep(t)
           \/ UNCHANGED vars
    PROVE  Applied'
<1> USE DEF Goto, Done
<1>1. ASSUME RegisterCallback \/ WatchdogTick PROVE Applied'
  BY <1>1, SessionUntouched DEF WindowSame, RegisterCallback, WatchdogTick, thrVars
<1>2. ASSUME DisconnectUnkick PROVE Applied'
  BY <1>2, SessionUntouched, WindowKept, ThreadFacts DEF DisconnectUnkick
<1>3. ASSUME ConnackRefused PROVE Applied'
  BY <1>3, SessionUntouched, WindowKept, ThreadFacts DEF ConnackRefused
<1>4. ASSUME NEW d \in Devs \cup {NoDev}, BeginAdd(d) PROVE Applied'
  BY <1>4, SessionUntouched, WindowKept, ThreadFacts DEF BeginAdd
<1>5. ASSUME NEW d \in Devs, BeginDel(d) PROVE Applied'
  BY <1>5, SessionUntouched, WindowKept, ThreadFacts DEF BeginDel
<1>6. ASSUME NEW d \in Devs, SelectMachine(d) PROVE Applied'
  BY <1>6, SessionUntouched, WindowKept, ThreadFacts DEF SelectMachine
<1>7. ASSUME NEW d \in Devs, CloudReport(d) \/ LanReport(d) \/ LanSilent(d) PROVE Applied'
  BY <1>7, SessionUntouched DEF WindowSame, CloudReport, LanReport, LanSilent, thrVars
<1>8. ASSUME NEW d \in Devs, LanLost(d) PROVE Applied'
  BY <1>8, SessionUntouched, WindowKept, ThreadFacts DEF LanLost
<1>9. ASSUME NEW d \in Devs, WatchdogNext(d) PROVE Applied'
  BY <1>9, SessionUntouched, WindowKept, ThreadFacts DEF WatchdogNext
<1>10. ASSUME NEW t \in Threads, Failback(t) PROVE Applied'
  BY <1>10, SessionUntouched, WindowKept, ThreadFacts DEF Failback
<1>11. ASSUME NEW t \in Threads, KickSnapshot(t) PROVE Applied'
  BY <1>11, SessionUntouched, WindowKept, ThreadFacts DEF KickSnapshot
<1>12. ASSUME NEW t \in Threads, KickLatch(t) PROVE Applied'
  BY <1>12, SessionUntouched, WindowKept, ThreadFacts DEF KickLatch
<1>13. ASSUME NEW t \in Threads, KickFinished(t) PROVE Applied'
  BY <1>13, SessionUntouched, WindowKept, ThreadFacts DEF KickFinished
<1>14. ASSUME NEW t \in Threads, KickUnlatch(t) PROVE Applied'
  BY <1>14, SessionUntouched, WindowKept, ThreadFacts DEF KickUnlatch
<1>15. ASSUME NEW t \in Threads, NEW d \in pend[t], KickSend(t, d) PROVE Applied'
  <2>1. UNCHANGED sessVars /\ pc[t] # "apply"
    BY <1>15 DEF KickSend
  <2>2. UNCHANGED pc \/ pc' = [pc EXCEPT ![t] = "unlatch"]
    BY <1>15 DEF KickSend
  <2>3. QED
    BY <2>1, <2>2, SessionUntouched, WindowKept, ThreadFacts DEF WindowSame
<1>16. ASSUME UNCHANGED vars PROVE Applied'
  BY <1>16, SessionUntouched DEF WindowSame, vars, thrVars
<1>17. QED
  BY <1>1, <1>2, <1>3, <1>4, <1>5, <1>6, <1>7, <1>8, <1>9, <1>10, <1>11, <1>12,
     <1>13, <1>14, <1>15, <1>16 DEF KickStep

\* The invariant is preserved by every step.
LEMMA AppliedStep ==
    ASSUME TypeOK, Applied, [Next]_vars
    PROVE  Applied'
<1> USE DEF Goto
<1>1. CASE ConnectCloud \/ ConnectCloudFails
  BY <1>1 DEF ConnectCloud, ConnectCloudFails, thrVars, Applied, Containment,
              SubscriptionsApplied
<1>2. CASE Connack
  BY <1>2, ThreadFacts DEF Connack, TypeOK, Applied, Containment, SubscriptionsApplied
<1>3. CASE LinkDrop
  BY <1>3 DEF LinkDrop, thrVars, Applied, Containment, SubscriptionsApplied
<1>4. CASE ConnackApply
  <2>1. Apply({}, subscribed) /\ broker \subseteq subscribed
    BY <1>4 DEF ConnackApply, Applied, Containment
  <2>2. subscribed \in SUBSET Devs /\ {} \in SUBSET Devs /\ {} \subseteq subscribed
    BY DEF TypeOK
  <2>3. /\ active' \subseteq subscribed
        /\ link = "up" => active' = subscribed /\ broker' = broker \cup (subscribed \ {})
        /\ link = "down" => broker' = broker
    BY <2>1, <2>2, ApplyFacts
  <2>4. UNCHANGED <<connected, link, subscribed>> /\ link \in {"up", "down"}
    BY <1>4 DEF ConnackApply, TypeOK
  <2>5. Containment'
    BY <1>4, <2>1, <2>3, <2>4, ThreadFacts
    DEF ConnackApply, TypeOK, Applied, Containment
  <2>6. SubscriptionsApplied'
    BY <2>1, <2>3, <2>4 DEF SubscriptionsApplied
  <2>7. QED
    BY <2>5, <2>6 DEF Applied
<1>5. CASE OnDisconnect
  BY <1>5, ThreadFacts DEF OnDisconnect, TypeOK, Applied, Containment, SubscriptionsApplied
<1>6. CASE DisconnectClear
  BY <1>6, ThreadFacts DEF DisconnectClear, TypeOK, Applied, Containment,
                           SubscriptionsApplied
<1>7. CASE DelSubscribe
  BY <1>7, ThreadFacts, CloudAssumption
  DEF DelSubscribe, TypeOK, Applied, Containment, SubscriptionsApplied
<1>8. ASSUME NEW t \in Threads, AddSubscribe(t) PROVE Applied'
  <2>1. UNCHANGED <<session, connected, link>> /\ link \in {"up", "down"}
    BY <1>8 DEF AddSubscribe, TypeOK
  <2>2. WindowSame
    BY <1>8, WindowKept, ThreadFacts DEF AddSubscribe
  <2>3. CASE session = "none"
    BY <1>8, <2>1, <2>2, <2>3, SessionUntouched DEF AddSubscribe, sessVars
  <2>4. CASE session # "none" /\ ~connected
    BY <1>8, <2>1, <2>2, <2>4 DEF AddSubscribe, WindowSame, Applied,
                                  Containment, SubscriptionsApplied
  <2>5. CASE session # "none" /\ connected
    <3>1. Apply(active, subscribed') /\ subscribed \subseteq subscribed'
      BY <1>8, <2>5 DEF AddSubscribe
    <3>2. subscribed' \in SUBSET Devs /\ active \in SUBSET Devs
      BY <1>8, <2>5 DEF AddSubscribe, TypeOK
    <3>3. active \subseteq subscribed' /\ broker \subseteq subscribed'
      BY <3>1 DEF Applied, Containment
    <3>4. /\ active \subseteq active' /\ active' \subseteq subscribed'
          /\ link = "up" => /\ active' = subscribed'
                            /\ broker' = broker \cup (subscribed' \ active)
          /\ link = "down" => broker' = broker
      BY <3>1, <3>2, <3>3, ApplyFacts
    <3>5. Containment'
      BY <2>1, <2>2, <3>3, <3>4 DEF WindowSame, Applied, Containment
    <3>6. SubscriptionsApplied'
      BY <2>1, <2>2, <3>4 DEF WindowSame, Applied, Containment, SubscriptionsApplied
    <3>7. QED
      BY <3>5, <3>6 DEF Applied
  <2>6. QED
    BY <2>3, <2>4, <2>5
<1>9. QED
  BY <1>1, <1>2, <1>3, <1>4, <1>5, <1>6, <1>7, <1>8, OtherSteps
  DEF Next, Environment, LoopStep, WatchdogStep, ThreadStep

\* The inductive invariant holds initially and after every step.
LEMMA InductiveInvariant == Spec => [](TypeOK /\ Applied)
<1>1. Init => TypeOK /\ Applied
  BY CloudAssumption DEF Init, TypeOK, Threads, Pcs, Applied, Containment,
                         SubscriptionsApplied
<1>2. TypeOK /\ Applied /\ [Next]_vars => (TypeOK /\ Applied)'
  BY TypeStep, AppliedStep DEF Applied
<1>3. QED
  BY <1>1, <1>2, PTL DEF Spec

\* Every reachable state of the cloud session machinery is well typed.
THEOREM TypeCorrect == Spec => []TypeOK
BY InductiveInvariant, PTL

\* No subscription is lost or left over, however add_subscribe, del_subscribe,
\* LAN failbacks, CONNACKs and transport drops interleave.
THEOREM SubscriptionsHold == Spec => []SubscriptionsApplied
<1>1. TypeOK /\ Applied => SubscriptionsApplied
  BY DEF Applied
<1>2. QED
  BY <1>1, InductiveInvariant, PTL

---------------------------------------------------------------------------
(* What Studio is told.  cloud_del_subscribe clears the latches before it drops the
   subscription, so that a report that arrives between the two halves leaves a latch behind:
   nothing is claimed of the announcement once Studio unsubscribes. *)

\* The one-shot latch is set only with the announcement.
LatchMeansTold == notified \subseteq told /\ reported \subseteq told

\* Without del_subscribe no latch is set and forgotten.
LEMMA LatchStep == "del" \notin Events /\ TypeOK /\ LatchMeansTold /\ pc[Studio] # "del2" /\ [Next]_vars
                       => LatchMeansTold' /\ pc'[Studio] # "del2"
<1> SUFFICES ASSUME "del" \notin Events, TypeOK, LatchMeansTold, pc[Studio] # "del2", [Next]_vars
             PROVE  LatchMeansTold' /\ pc'[Studio] # "del2"
  OBVIOUS
<1> USE CloudAssumption DEF LatchMeansTold, TypeOK, Threads, Goto, Done, noteVars, thrVars
<1>1. CASE ConnectCloud \/ ConnectCloudFails \/ RegisterCallback \/ LinkDrop
  BY <1>1 DEF ConnectCloud, ConnectCloudFails, RegisterCallback, LinkDrop
<1>2. CASE Connack \/ ConnackRefused \/ LoopStep
  BY <1>2 DEF Connack, ConnackRefused, LoopStep, ConnackApply, OnDisconnect, DisconnectClear,
              DisconnectUnkick
<1>3. CASE \E d \in Devs \cup {NoDev} : BeginAdd(d)
  BY <1>3 DEF BeginAdd
<1>4. ASSUME NEW d \in Devs, BeginDel(d) \/ SelectMachine(d) \/ LanReport(d) \/ LanSilent(d)
                             \/ LanLost(d) \/ WatchdogNext(d)
      PROVE  LatchMeansTold' /\ pc'[Studio] # "del2"
  BY <1>4 DEF BeginDel, SelectMachine, LanReport, LanSilent, LanLost, WatchdogNext
<1>5. ASSUME NEW d \in Devs, CloudReport(d)
      PROVE  LatchMeansTold' /\ pc'[Studio] # "del2"
  BY <1>5 DEF CloudReport
<1>6. CASE DelSubscribe \/ WatchdogTick
  BY <1>6 DEF DelSubscribe, WatchdogTick
<1>7. ASSUME NEW t \in Threads, AddSubscribe(t) \/ Failback(t)
      PROVE  LatchMeansTold' /\ pc'[Studio] # "del2"
  BY <1>7 DEF AddSubscribe, Failback
<1>8. ASSUME NEW t \in Threads, KickStep(t)
      PROVE  LatchMeansTold' /\ pc'[Studio] # "del2"
  BY <1>8 DEF KickStep, KickSnapshot, KickLatch, KickFinished, KickUnlatch, KickSend
<1>9. CASE UNCHANGED vars
  BY <1>9 DEF vars
<1> HIDE DEF TypeOK, LatchMeansTold, Threads
<1> QED
  BY <1>1, <1>2, <1>3, <1>4, <1>5, <1>6, <1>7, <1>8, <1>9
  DEF Next, Environment, WatchdogStep, ThreadStep

\* A printer whose reports reach Studio has been announced to it, whatever drops, failbacks
\* and late registrations of the callback come between (agent.cpp, on_msg_cb).
THEOREM AnnouncedHolds ==
    ASSUME "del" \notin Events PROVE Spec => []AnnouncedAfterSubscribe
<1> DEFINE Inv == LatchMeansTold /\ pc[Studio] # "del2"
<1>1. Init => Inv
  BY DEF Init, LatchMeansTold, Threads
<1>2. TypeOK /\ Inv /\ [Next]_vars => Inv'
  BY LatchStep
<1>3. Inv => AnnouncedAfterSubscribe
  BY DEF LatchMeansTold, AnnouncedAfterSubscribe
<1> QED
  BY <1>1, <1>2, <1>3, TypeCorrect, PTL DEF Spec

---------------------------------------------------------------------------
(* The kickstart on one connection: no unsubscribe and no transport drop. *)

\* The connection stays once it is there: a refused CONNACK comes only before it, and a
\* thread that has seen active_ has seen the connection.
OneConnection ==
    /\ connected <=> link = "up"
    /\ session = "none" => ~connected
    /\ pc[Loop] # "clear" /\ (pc[Loop] = "unkick" => ~connected)
    /\ pc[Loop] = "apply" => connected
    /\ pc[Studio] # "del2"
    /\ broker = active
    /\ ~connected => active = {}
    /\ \A t \in Threads : /\ pc[t] \in {"latch", "send"} => connected /\ pend[t] \subseteq active
                          /\ pc[t] # "unlatch"

\* A device that is subscribed and not yet asked is on some thread's way to be asked: the
\* thread has still to look, or has it on its list.  One that is latched is on the list of
\* a thread that is past the latch, so that nobody who finds the latch set need care.
SomebodyAsks ==
    /\ kicked \subseteq active
    /\ \A d \in active \ asked : \E t \in Threads :
           pc[t] = "snap" \/ (pc[t] \in {"latch", "send"} /\ d \in pend[t])
    /\ \A d \in (active \cap kicked) \ asked : \E t \in Threads :
           pc[t] = "send" /\ d \in pend[t]

KickInv == OneConnection /\ SomebodyAsks

\* The facts of the types that the steps below use.
LEMMA OneConnectionTypes ==
    ASSUME TypeOK
    PROVE  /\ Threads = {Studio, Lan, Watchdog, Loop}
           /\ pc \in [Threads -> Pcs] /\ pend \in [Threads -> SUBSET Devs]
           /\ connected \in BOOLEAN /\ link \in {"down", "up"}
BY DEF TypeOK, Threads

\* A step of another kind: the connection, the sets and the threads on their way to ask are
\* as they were, but for a thread that begins to look.
LEMMA OthersKeepAsking ==
    ASSUME KickInv, TypeOK, UNCHANGED <<sessVars, asked, pend>>, kicked' \subseteq kicked,
           NEW t \in Threads, NEW w \in {"idle", "add", "failback", "snap"},
           pc[t] \in {"idle", "add", "failback"} \/ UNCHANGED pc,
           pc' = [pc EXCEPT ![t] = w] \/ UNCHANGED pc
    PROVE  KickInv'
<1> USE OneConnectionTypes DEF KickInv, sessVars
<1>1. OneConnection'
  BY DEF OneConnection
<1>2. SomebodyAsks'
  BY DEF SomebodyAsks
<1> QED
  BY <1>1, <1>2

\* Every step keeps the kickstart on its way.
LEMMA KickInvStep ==
    {"del", "drop"} \cap Events = {} /\ TypeOK /\ Applied /\ KickInv /\ [Next]_vars => KickInv'
<1> SUFFICES ASSUME {"del", "drop"} \cap Events = {}, TypeOK, Applied, KickInv, [Next]_vars
             PROVE  KickInv'
  OBVIOUS
<1>e. "del" \notin Events /\ "drop" \notin Events
  OBVIOUS
<1>f. Studio \in Threads /\ Lan \in Threads /\ Watchdog \in Threads /\ Loop \in Threads
  BY DEF Threads
<1>1. CASE RegisterCallback \/ WatchdogTick \/ UNCHANGED vars
  BY <1>1, <1>f, OthersKeepAsking
  DEF RegisterCallback, WatchdogTick, vars, kickVars, thrVars
<1>2. ASSUME NEW d \in Devs, CloudReport(d) \/ LanReport(d) \/ LanSilent(d) PROVE KickInv'
  BY <1>2, <1>f, OthersKeepAsking DEF CloudReport, LanReport, LanSilent, kickVars, thrVars
<1>3. ASSUME NEW d \in Devs \cup {NoDev}, BeginAdd(d) PROVE KickInv'
  BY <1>3, <1>f, OthersKeepAsking DEF BeginAdd, kickVars
<1>4. ASSUME NEW d \in Devs, SelectMachine(d) PROVE KickInv'
  BY <1>4, <1>f, OthersKeepAsking DEF SelectMachine, Goto
<1>5. ASSUME NEW d \in Devs, LanLost(d) PROVE KickInv'
  BY <1>5, <1>f, OthersKeepAsking DEF LanLost, kickVars
<1>6. ASSUME NEW d \in Devs, WatchdogNext(d) PROVE KickInv'
  BY <1>6, <1>f, OthersKeepAsking DEF WatchdogNext, kickVars
<1>7. ASSUME NEW t \in Threads, Failback(t) PROVE KickInv'
  BY <1>7, OthersKeepAsking DEF Failback, kickVars, Goto
<1>8. CASE \/ \E d \in Devs : BeginDel(d)
           \/ LinkDrop \/ DelSubscribe \/ OnDisconnect \/ DisconnectClear
  BY <1>8, <1>e DEF BeginDel, LinkDrop, DelSubscribe, OnDisconnect, DisconnectClear, KickInv,
                    OneConnection
<1> USE OneConnectionTypes DEF KickInv, Goto, Done
<1>9. CASE ConnectCloud \/ ConnectCloudFails
  <2>1. UNCHANGED <<connected, link, subscribed, active, broker, kicked, asked, pc, pend>>
        /\ session' # "none"
    BY <1>9 DEF ConnectCloud, ConnectCloudFails, kickVars, thrVars
  <2>2. OneConnection'
    BY <2>1 DEF OneConnection
  <2>3. SomebodyAsks'
    BY <2>1 DEF SomebodyAsks
  <2> QED
    BY <2>2, <2>3
<1>10. CASE Connack \/ ConnackRefused \/ DisconnectUnkick
  <2>1. OneConnection'
    BY <1>10 DEF Connack, ConnackRefused, DisconnectUnkick, sessVars, OneConnection
  <2>2. active = {} /\ kicked' = {} /\ active' = {}
    BY <1>10 DEF Connack, ConnackRefused, DisconnectUnkick, OneConnection, SomebodyAsks,
                 kickVars, sessVars
  <2>3. SomebodyAsks'
    BY <2>2 DEF SomebodyAsks
  <2> QED
    BY <2>1, <2>3
<1>11. CASE ConnackApply
  <2>1. connected /\ link = "up" /\ pc[Loop] = "apply"
    BY <1>11 DEF ConnackApply, OneConnection
  <2>2. Apply({}, subscribed) /\ broker \subseteq subscribed /\ subscribed \in SUBSET Devs
        /\ active \subseteq subscribed
    BY <1>11 DEF ConnackApply, Applied, Containment, TypeOK
  <2>3. active' = subscribed /\ broker' = subscribed
    BY <2>1, <2>2, ApplyFacts
  <2>4. pc' = [pc EXCEPT ![Loop] = "snap"] /\ UNCHANGED <<session, connected, link, kicked, asked, pend>>
    BY <1>11 DEF ConnackApply, kickVars
  <2>5. OneConnection'
    BY <2>1, <2>2, <2>3, <2>4, CloudAssumption DEF OneConnection
  <2>6. SomebodyAsks'
    <3>1. pc'[Loop] = "snap" /\ kicked' \subseteq active'
      BY <2>2, <2>3, <2>4 DEF SomebodyAsks
    <3>2. \A d \in (active' \cap kicked') \ asked' : \E u \in Threads : pc'[u] = "send" /\ d \in pend'[u]
      BY <2>1, <2>4 DEF SomebodyAsks
    <3> QED
      BY <3>1, <3>2, <1>f DEF SomebodyAsks
  <2> QED
    BY <2>5, <2>6
<1>12. ASSUME NEW t \in Threads, AddSubscribe(t) PROVE KickInv'
  <2>0. pc[t] = "add" /\ UNCHANGED <<session, connected, link, kicked, asked, pend>>
    BY <1>12 DEF AddSubscribe, kickVars
  <2>1. CASE session = "none"
    <3>1. UNCHANGED <<sessVars, asked, pend, kicked>> /\ pc' = [pc EXCEPT ![t] = "idle"]
      BY <1>12, <2>0, <2>1 DEF AddSubscribe, sessVars
    <3> QED
      BY <2>0, <3>1, OthersKeepAsking
  <2>2. CASE session # "none"
    <3>1. pc' = [pc EXCEPT ![t] = "snap"] /\ subscribed \subseteq subscribed'
          /\ subscribed' \in SUBSET Devs
      BY <1>12, <2>2 DEF AddSubscribe, TypeOK
    <3>2. active \subseteq active' /\ broker' = active' /\ (~connected => active' = {})
      <4>1. CASE connected
        <5>1. Apply(active, subscribed')
          BY <1>12, <2>2, <4>1 DEF AddSubscribe
        <5>2. active \subseteq subscribed' /\ broker \subseteq subscribed' /\ active \in SUBSET Devs
          BY <3>1 DEF Applied, Containment, TypeOK
        <5>3. link = "up" /\ broker = active
          BY <4>1 DEF OneConnection
        <5> QED
          <6>1. active' = subscribed' /\ broker' = active \cup (subscribed' \ active)
            BY <3>1, <5>1, <5>2, <5>3, ApplyFacts
          <6> QED
            BY <4>1, <5>2, <6>1
      <4>2. CASE ~connected
        BY <1>12, <2>2, <4>2 DEF AddSubscribe, OneConnection
      <4> QED
        BY <4>1, <4>2
    <3>3. OneConnection'
      BY <2>0, <3>1, <3>2 DEF OneConnection
    <3>4. SomebodyAsks'
      <4>1. pc'[t] = "snap" /\ kicked' \subseteq active'
        BY <2>0, <3>1, <3>2 DEF SomebodyAsks
      <4>2. \A d \in (active' \cap kicked') \ asked' :
                \E u \in Threads : pc'[u] = "send" /\ d \in pend'[u]
        BY <2>0, <3>1 DEF SomebodyAsks
      <4> QED
        BY <4>1, <4>2 DEF SomebodyAsks
    <3> QED
      BY <3>3, <3>4
  <2> QED
    BY <2>1, <2>2
<1>13. ASSUME NEW t \in Threads, KickSnapshot(t) PROVE KickInv'
  <2>0. pc[t] = "snap" /\ UNCHANGED <<session, connected, link, active, broker, kicked, asked>>
    BY <1>13 DEF KickSnapshot, sessVars, kickVars
  <2>1. OneConnection'
    BY <1>13, <2>0 DEF KickSnapshot, OneConnection
  <2>2. CASE session # "none" /\ connected
    <3>1. pc' = [pc EXCEPT ![t] = "latch"] /\ pend' = [pend EXCEPT ![t] = active]
      BY <1>13, <2>2 DEF KickSnapshot
    <3>2. pc'[t] = "latch" /\ pend'[t] = active
      BY <3>1
    <3>3. \A d \in (active \cap kicked) \ asked : \E u \in Threads : pc'[u] = "send" /\ d \in pend'[u]
      BY <2>0, <3>1 DEF SomebodyAsks
    <3> QED
      BY <2>0, <2>1, <3>2, <3>3 DEF SomebodyAsks
  <2>3. CASE ~connected
    BY <2>0, <2>1, <2>3 DEF SomebodyAsks, OneConnection
  <2>4. CASE session = "none" /\ connected
    BY <2>4 DEF OneConnection
  <2> QED
    BY <2>2, <2>3, <2>4
<1>14. ASSUME NEW t \in Threads, KickLatch(t) PROVE KickInv'
  <2>0. /\ pc[t] = "latch" /\ UNCHANGED <<session, connected, link, active, broker, asked>>
        /\ pend' = [pend EXCEPT ![t] = pend[t] \ kicked] /\ kicked' = kicked \cup pend[t]
        /\ pc' = [pc EXCEPT ![t] = "send"]
    BY <1>14 DEF KickLatch, sessVars
  <2>1. OneConnection'
    BY <2>0 DEF OneConnection
  <2>2. kicked' \subseteq active'
    BY <2>0 DEF SomebodyAsks, OneConnection
  <2>3. \A d \in (active' \cap kicked') \ asked' : \E u \in Threads : pc'[u] = "send" /\ d \in pend'[u]
    <3> SUFFICES ASSUME NEW d \in (active' \cap kicked') \ asked'
                 PROVE  \E u \in Threads : pc'[u] = "send" /\ d \in pend'[u]
      OBVIOUS
    <3>1. CASE d \in kicked
      <4>1. PICK u \in Threads : pc[u] = "send" /\ d \in pend[u]
        BY <2>0, <3>1 DEF SomebodyAsks
      <4> QED
        BY <2>0, <4>1
    <3>2. CASE d \notin kicked
      BY <2>0, <3>2
    <3> QED
      BY <3>1, <3>2
  <2>4. ASSUME NEW d \in active' \ asked'
        PROVE  \E u \in Threads : pc'[u] = "snap" \/ (pc'[u] \in {"latch", "send"} /\ d \in pend'[u])
    <3>1. CASE d \in kicked'
      BY <2>0, <2>3, <3>1
    <3>2. CASE d \notin kicked'
      <4>1. PICK u \in Threads : pc[u] = "snap" \/ (pc[u] \in {"latch", "send"} /\ d \in pend[u])
        BY <2>0 DEF SomebodyAsks
      <4> QED
        BY <2>0, <3>2, <4>1
    <3> QED
      BY <3>1, <3>2
  <2> QED
    BY <2>1, <2>2, <2>3, <2>4 DEF SomebodyAsks
<1>15. ASSUME NEW t \in Threads, KickFinished(t) PROVE KickInv'
  <2>0. /\ pc[t] = "send" /\ pend[t] = {} /\ UNCHANGED <<session, connected, link, active, broker, kicked, asked, pend>>
        /\ pc' = [pc EXCEPT ![t] = "idle"]
    BY <1>15 DEF KickFinished, sessVars, kickVars
  <2>1. OneConnection'
    BY <2>0 DEF OneConnection
  <2>2. SomebodyAsks'
    BY <2>0 DEF SomebodyAsks
  <2> QED
    BY <2>1, <2>2
<1>16. ASSUME NEW t \in Threads, KickUnlatch(t) PROVE KickInv'
  BY <1>16 DEF KickUnlatch, OneConnection
<1>17. ASSUME NEW t \in Threads, NEW d \in pend[t], KickSend(t, d) PROVE KickInv'
  <2>1. connected /\ link = "up" /\ pend[t] \subseteq active /\ broker = active
    BY <1>17 DEF KickSend, OneConnection
  <2>0. /\ pc[t] = "send" /\ UNCHANGED <<session, connected, link, active, broker, kicked, pc>>
        /\ pend' = [pend EXCEPT ![t] = pend[t] \ {d}] /\ asked' = asked \cup {d}
    BY <1>17, <2>1 DEF KickSend, sessVars
  <2>2. OneConnection'
    BY <2>0 DEF OneConnection
  <2>3. SomebodyAsks'
    BY <2>0 DEF SomebodyAsks
  <2> QED
    BY <2>2, <2>3
<1> HIDE DEF KickInv
<1> QED
  BY <1>1, <1>2, <1>3, <1>4, <1>5, <1>6, <1>7, <1>8, <1>9, <1>10, <1>11, <1>12, <1>13, <1>14,
     <1>15, <1>16, <1>17
  DEF Next, Environment, LoopStep, WatchdogStep, ThreadStep, KickStep

\* No printer is left out on a connection that lasts: once every thread is at rest each
\* subscribed printer was asked for a snapshot, whichever thread latched it, and each one
\* that reported was announced.
THEOREM AskedHolds ==
    ASSUME {"del", "drop"} \cap Events = {} PROVE Spec => []AskedAndAnnounced
<1>1. Init => KickInv
  BY DEF Init, KickInv, OneConnection, SomebodyAsks, Threads
<1>2. TypeOK /\ Applied /\ KickInv /\ [Next]_vars => KickInv'
  BY KickInvStep
<1>3. KickInv => KickstartReachesAll
  BY DEF KickInv, SomebodyAsks, KickstartReachesAll, Quiet
<1>4. "del" \notin Events
  OBVIOUS
<1>5. Spec => []AnnouncedAfterSubscribe
  BY <1>4, AnnouncedHolds
<1>6. KickstartReachesAll /\ AnnouncedAfterSubscribe => AskedAndAnnounced
  BY DEF AskedAndAnnounced
<1> QED
  BY <1>1, <1>2, <1>3, <1>5, <1>6, InductiveInvariant, PTL DEF Spec
=============================================================================
