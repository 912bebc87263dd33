------------------------- MODULE AgentDeployProofs -------------------------
(***************************************************************************)
(* Theorems about the agent's executor, for every set of plans and every   *)
(* machine: its reports implement module DeployProtocol, hooks run only    *)
(* after the content is written, and no daemon outlives its deploy.        *)
(***************************************************************************)
EXTENDS AgentDeploy, TLAPS

-----------------------------------------------------------------------------
(* What may follow what, from DeployProtocol.                              *)

Failed(phase) == <<phase, "failed">>

\* The phases have their places, and a report's place is found by its name.
LEMMA PhaseFacts ==
    /\ DOMAIN Reports!Phases = 1..5 /\ Len(Reports!Phases) = 5
    /\ Reports!Phases[1] = "Partitioning" /\ Reports!Phases[2] = "WritingContent"
    /\ Reports!Phases[3] = "RunningPostHook" /\ Reports!Phases[4] = "Finalizing"
    /\ Reports!Phases[5] = "Succeeded"
    /\ \A i \in 1..5 : Reports!PhaseOf(Done(Reports!Phases[i])) = i
  <1>1. /\ DOMAIN Reports!Phases = 1..5 /\ Len(Reports!Phases) = 5
        /\ Reports!Phases[1] = "Partitioning" /\ Reports!Phases[2] = "WritingContent"
        /\ Reports!Phases[3] = "RunningPostHook" /\ Reports!Phases[4] = "Finalizing"
        /\ Reports!Phases[5] = "Succeeded"
    BY DEF Reports!Phases
  <1>2. \A i, j \in 1..5 : Reports!Phases[i] = Reports!Phases[j] => i = j
    BY <1>1
  <1>3. ASSUME NEW i \in 1..5
        PROVE Reports!PhaseOf(Done(Reports!Phases[i])) = i
    BY <1>1, <1>2 DEF Reports!PhaseOf, Done
  <1>4. QED
    BY <1>1, <1>3

Names == {"Partitioning", "WritingContent", "RunningPostHook", "Finalizing", "Succeeded"}

\* A report is a phase's name and a state.
LEMMA ReportFacts == Reports!Reports = Names \X {"running", "succeeded", "failed"}
  <1>1. {Reports!Phases[i] : i \in DOMAIN Reports!Phases} = Names
    BY PhaseFacts DEF Names
  <1>2. QED
    BY <1>1 DEF Reports!Reports, Reports!States

\* A phase that runs may report again, succeed or fail; the next follows its success.
LEMMA AfterFacts ==
    /\ {Running("Partitioning"), Failed("Partitioning")} \subseteq Reports!After(NoReport)
    /\ \A p \in Names : {Running(p), Done(p), Failed(p)} \subseteq Reports!After(Running(p))
    /\ Running("WritingContent") \in Reports!After(Done("Partitioning"))
    /\ Running("RunningPostHook") \in Reports!After(Done("WritingContent"))
    /\ Running("Finalizing") \in Reports!After(Done("RunningPostHook"))
    /\ Done("Succeeded") \in Reports!After(Done("Finalizing"))
    /\ Failed("Succeeded") \in Reports!After(Done("Succeeded"))
  <1>1. {Running("Partitioning"), Failed("Partitioning")} \subseteq Reports!After(NoReport)
    BY PhaseFacts, ReportFacts
    DEF Names, Running, Failed, NoReport, Reports!After, Reports!NoReport, Reports!Opens
  <1>2. ASSUME NEW p \in Names
        PROVE {Running(p), Done(p), Failed(p)} \subseteq Reports!After(Running(p))
    BY ReportFacts DEF Running, Done, Failed, Reports!After
  <1>3. ASSUME NEW i \in 1..4
        PROVE Reports!Opens(i + 1) \in Reports!After(Done(Reports!Phases[i]))
    <2>1. Reports!Opens(i + 1) \in Reports!Reports
      BY PhaseFacts, ReportFacts DEF Names, Reports!Opens
    <2>2. Reports!PhaseOf(Done(Reports!Phases[i])) = i /\ i < Len(Reports!Phases)
      BY PhaseFacts
    <2>3. Done(Reports!Phases[i])[2] = "succeeded"
      BY DEF Done
    <2>4. QED
      BY <2>1, <2>2, <2>3 DEF Reports!After
  <1>4. /\ Reports!Opens(2) = Running("WritingContent")
        /\ Reports!Opens(3) = Running("RunningPostHook")
        /\ Reports!Opens(4) = Running("Finalizing")
        /\ Reports!Opens(5) = Done("Succeeded")
    BY PhaseFacts DEF Running, Done, Reports!Opens
  <1>5. Failed("Succeeded") \in Reports!After(Done("Succeeded"))
    <2>1. Reports!PhaseOf(Done("Succeeded")) = 5 /\ Len(Reports!Phases) = 5
      BY PhaseFacts
    <2>2. Failed("Succeeded") \in Reports!Reports
      BY ReportFacts DEF Failed, Names
    <2>3. QED
      BY <2>1, <2>2 DEF Done, Failed, Reports!After
  <1>6. /\ Running("WritingContent") \in Reports!After(Done("Partitioning"))
        /\ Running("RunningPostHook") \in Reports!After(Done("WritingContent"))
        /\ Running("Finalizing") \in Reports!After(Done("RunningPostHook"))
        /\ Done("Succeeded") \in Reports!After(Done("Finalizing"))
    BY <1>3, <1>4, PhaseFacts
  <1>7. QED
    BY <1>1, <1>2, <1>5, <1>6

-----------------------------------------------------------------------------
(* The reports still to be sent continue those that were.                  *)

Follows(a, s) ==
    /\ s # <<>> => s[1] \in Reports!After(a)
    /\ \A i \in 1..(Len(s) - 1) : s[i + 1] \in Reports!After(s[i])

LastSaid(a, s) == IF s = <<>> THEN a ELSE s[Len(s)]

\* Sending the first of them leaves the rest in order.
LEMMA SendFirst ==
    ASSUME NEW R, NEW s \in Seq(R), NEW a, s # <<>>, Follows(a, s)
    PROVE  /\ Head(s) \in Reports!After(a)
           /\ Tail(s) \in Seq(R) /\ Follows(Head(s), Tail(s))
           /\ LastSaid(Head(s), Tail(s)) = LastSaid(a, s)
  <1>1. /\ Head(s) = s[1] /\ Tail(s) \in Seq(R) /\ Len(s) \in Nat \ {0}
        /\ Len(Tail(s)) = Len(s) - 1
        /\ \A i \in 1..(Len(s) - 1) : Tail(s)[i] = s[i + 1]
    OBVIOUS
  <1>2. Follows(Head(s), Tail(s))
    <2>1. Tail(s) # <<>> => Tail(s)[1] \in Reports!After(Head(s))
      BY <1>1 DEF Follows
    <2>2. ASSUME NEW i \in 1..(Len(Tail(s)) - 1)
          PROVE Tail(s)[i + 1] \in Reports!After(Tail(s)[i])
      <3>1. i \in 1..(Len(s) - 1) /\ i + 1 \in 1..(Len(s) - 1)
        BY <1>1
      <3>2. Tail(s)[i] = s[i + 1] /\ Tail(s)[i + 1] = s[(i + 1) + 1]
        BY <1>1, <3>1
      <3>3. QED
        BY <3>1, <3>2 DEF Follows
    <2>3. QED
      BY <2>1, <2>2 DEF Follows
  <1>3. LastSaid(Head(s), Tail(s)) = LastSaid(a, s)
    BY <1>1 DEF LastSaid
  <1>4. QED
    BY <1>1, <1>2, <1>3 DEF Follows

\* Short lists of reports that continue a.
LEMMA Continue ==
    /\ \A a : Follows(a, <<>>) /\ LastSaid(a, <<>>) = a
    /\ \A a, x : x \in Reports!After(a) => Follows(a, <<x>>) /\ LastSaid(a, <<x>>) = x
    /\ \A a, x, y : x \in Reports!After(a) /\ y \in Reports!After(x)
          => Follows(a, <<x, y>>) /\ LastSaid(a, <<x, y>>) = y
    /\ \A a, w, x, y, z :
          w \in Reports!After(a) /\ x \in Reports!After(w) /\ y \in Reports!After(x)
          /\ z \in Reports!After(y)
          => Follows(a, <<w, x, y, z>>) /\ LastSaid(a, <<w, x, y, z>>) = z
  <1>1. \A a : Follows(a, <<>>) /\ LastSaid(a, <<>>) = a
    BY DEF Follows, LastSaid
  <1>2. ASSUME NEW a, NEW x, x \in Reports!After(a)
        PROVE Follows(a, <<x>>) /\ LastSaid(a, <<x>>) = x
    BY <1>2 DEF Follows, LastSaid
  <1>3. ASSUME NEW a, NEW x, NEW y, x \in Reports!After(a), y \in Reports!After(x)
        PROVE Follows(a, <<x, y>>) /\ LastSaid(a, <<x, y>>) = y
    BY <1>3 DEF Follows, LastSaid
  <1>4. ASSUME NEW a, NEW w, NEW x, NEW y, NEW z, w \in Reports!After(a),
               x \in Reports!After(w), y \in Reports!After(x), z \in Reports!After(y)
        PROVE Follows(a, <<w, x, y, z>>) /\ LastSaid(a, <<w, x, y, z>>) = z
    <2>1. \A i \in 1..3 : i = 1 \/ i = 2 \/ i = 3
      OBVIOUS
    <2>2. QED
      BY <1>4, <2>1 DEF Follows, LastSaid
  <1>5. QED
    BY <1>1, <1>2, <1>3, <1>4

\* Two and four reports that follow on what was said.
LEMMA TwoFollow ==
    ASSUME NEW a, NEW x \in Reports!After(a), NEW y \in Reports!After(x)
    PROVE  /\ Follows(a, <<x, y>>) /\ LastSaid(a, <<x, y>>) = y
           /\ <<x, y>> \in Seq(Reports!Reports)
  <1>1. Follows(a, <<x, y>>) /\ LastSaid(a, <<x, y>>) = y
    BY Continue
  <1>2. x \in Reports!Reports /\ y \in Reports!Reports
    BY Zenon DEF Reports!After
  <1>3. QED
    BY <1>1, <1>2

LEMMA FourFollow ==
    ASSUME NEW a, NEW w \in Reports!After(a), NEW x \in Reports!After(w),
           NEW y \in Reports!After(x), NEW z \in Reports!After(y)
    PROVE  /\ Follows(a, <<w, x, y, z>>) /\ LastSaid(a, <<w, x, y, z>>) = z
           /\ <<w, x, y, z>> \in Seq(Reports!Reports)
  <1>1. Follows(a, <<w, x, y, z>>) /\ LastSaid(a, <<w, x, y, z>>) = z
    BY Continue
  <1>2. /\ w \in Reports!Reports /\ x \in Reports!Reports
        /\ y \in Reports!Reports /\ z \in Reports!Reports
    BY Zenon DEF Reports!After
  <1>3. QED
    BY <1>1, <1>2

-----------------------------------------------------------------------------
(* Refinement.                                                             *)

Writing == {"launch", "slots", "seed", "shutdown"}
Places == {"idle", "check", "tables", "hooks", "handover", "over", "failed"} \cup Writing
Said == LastSaid(last, out)

\* Where Execute is tells what it will have reported once nothing is left to send.
SaysWhereItIs ==
    /\ pc = "check" => Said = NoReport
    /\ pc = "tables" => Said = Running("Partitioning")
    /\ pc \in Writing => Said = Running("WritingContent")
    /\ pc = "hooks" => Said = Running("RunningPostHook")
    /\ pc \in {"handover", "over"} => Said = Done("Succeeded")
    /\ pc = "failed" => \E p \in Names : Said = Failed(p)

ReportInv ==
    /\ pc \in Places
    /\ out \in Seq(Reports!Reports)
    /\ pc \in {"idle", "over"} => out = <<>>
    /\ Follows(last, out)
    /\ SaysWhereItIs

\* What the abstract specification sees is left alone.
LEMMA Silent ==
    ASSUME ReportInv, pc' = pc, out' = out, last' = last
    PROVE  ReportInv'
  BY DEF ReportInv, SaysWhereItIs, Said

\* A step that fails in a phase that runs, or may begin, reports it.
LEMMA FailureReports ==
    ASSUME NEW phase \in Names, ReportInv, out = <<>>, last' = last, FailWith(phase),
           Failed(phase) \in Reports!After(last)
    PROVE  ReportInv'
  <1>1. out' = <<Failed(phase)>> /\ pc' = "failed"
    BY DEF FailWith, Failed
  <1>2. Follows(last, <<Failed(phase)>>) /\ LastSaid(last, <<Failed(phase)>>) = Failed(phase)
    BY Continue
  <1>3. <<Failed(phase)>> \in Seq(Reports!Reports)
    BY DEF Reports!After
  <1>4. QED
    BY <1>1, <1>2, <1>3 DEF ReportInv, SaysWhereItIs, Said, Places, Writing

\* While a phase runs it may fail.
LEMMA RunningFails ==
    ASSUME ReportInv, out = <<>>
    PROVE  /\ pc \in {"check", "tables"} => Failed("Partitioning") \in Reports!After(last)
           /\ pc \in Writing => Failed("WritingContent") \in Reports!After(last)
           /\ pc = "hooks" => Failed("RunningPostHook") \in Reports!After(last)
           /\ pc = "handover" => Failed("Succeeded") \in Reports!After(last)
  <1>1. Said = last
    BY DEF Said, LastSaid
  <1>2. QED
    BY <1>1, AfterFacts DEF ReportInv, SaysWhereItIs, Names

\* Every step of Execute keeps to the order of the reports.
LEMMA StepKeepsOrder ==
    ASSUME ReportInv, Step
    PROVE  ReportInv'
  <1> USE DEF Reporter
  <1>1. CASE Report
    <2>1. out # <<>> /\ last' = Head(out) /\ out' = Tail(out) /\ pc' = pc
      BY <1>1 DEF Report
    <2>2. /\ Tail(out) \in Seq(Reports!Reports) /\ Follows(Head(out), Tail(out))
          /\ LastSaid(Head(out), Tail(out)) = LastSaid(last, out)
      BY <2>1, SendFirst DEF ReportInv
    <2>3. QED
      BY <2>1, <2>2 DEF ReportInv, SaysWhereItIs, Said
  <1>2. CASE Check
    <2>1. out = <<>> /\ last' = last /\ pc = "check"
      BY <1>2 DEF Check
    <2>2. CASE FailWith("Partitioning")
      BY <2>1, <2>2, FailureReports, RunningFails DEF Names
    <2>3. CASE pc' = "tables" /\ out' = <<Running("Partitioning")>>
      <3>1. Running("Partitioning") \in Reports!After(last)
        BY <2>1, AfterFacts DEF ReportInv, SaysWhereItIs, Said, LastSaid
      <3>2. /\ Follows(last, out') /\ LastSaid(last, out') = Running("Partitioning")
            /\ out' \in Seq(Reports!Reports)
        BY <2>3, <3>1, Continue DEF Reports!After
      <3>3. QED
        BY <2>1, <2>3, <3>2 DEF ReportInv, SaysWhereItIs, Said, Places, Writing
    <2>4. QED
      BY <1>2, <2>2, <2>3 DEF Check
  <1>3. CASE WriteTable
    <2>1. out = <<>> /\ last' = last /\ pc = "tables"
      BY <1>3 DEF WriteTable
    <2>2. CASE FailWith("Partitioning")
      BY <2>1, <2>2, FailureReports, RunningFails DEF Names
    <2>3. CASE UNCHANGED <<pc, out>>
      BY <2>1, <2>3, Silent
    <2>4. QED
      BY <1>3, <2>2, <2>3 DEF WriteTable
  <1>4. CASE TablesWritten
    <2>1. /\ out = <<>> /\ last' = last /\ pc = "tables" /\ pc' \in {"launch", "slots"}
          /\ out' = <<Done("Partitioning"), Running("WritingContent")>>
      BY <1>4 DEF TablesWritten
    <2>2. Done("Partitioning") \in Reports!After(last)
      BY <2>1, AfterFacts DEF ReportInv, SaysWhereItIs, Said, LastSaid, Names
    <2>3. /\ Follows(last, out') /\ LastSaid(last, out') = Running("WritingContent")
          /\ out' \in Seq(Reports!Reports)
      <3>1. Running("WritingContent") \in Reports!After(Done("Partitioning"))
        BY AfterFacts, Zenon
      <3>2. QED
        BY <2>1, <2>2, <3>1, TwoFollow, Zenon
    <2>4. QED
      BY <2>1, <2>3 DEF ReportInv, SaysWhereItIs, Said, Places, Writing
  <1>5. CASE Launch
    <2>1. out = <<>> /\ last' = last /\ pc = "launch"
      BY <1>5 DEF Launch
    <2>2. CASE FailWith("WritingContent")
      BY <2>1, <2>2, FailureReports, RunningFails DEF Names, Writing
    <2>3. CASE pc' = "slots" /\ out' = out
      BY <2>1, <2>3 DEF ReportInv, SaysWhereItIs, Said, Places, Writing
    <2>4. QED
      BY <1>5, <2>2, <2>3 DEF Launch
  <1>6. CASE WriteSlot
    <2>1. out = <<>> /\ last' = last /\ pc = "slots"
      BY <1>6 DEF WriteSlot
    <2>2. CASE FailWith("WritingContent")
      BY <2>1, <2>2, FailureReports, RunningFails DEF Names, Writing
    <2>3. CASE UNCHANGED <<pc, out>>
      BY <2>1, <2>3, Silent
    <2>4. CASE pc' = pc /\ out' = <<Running("WritingContent")>>
      <3>1. Running("WritingContent") \in Reports!After(last)
        BY <2>1, AfterFacts DEF ReportInv, SaysWhereItIs, Said, LastSaid, Names, Writing
      <3>2. /\ Follows(last, out') /\ LastSaid(last, out') = Running("WritingContent")
            /\ out' \in Seq(Reports!Reports)
        BY <2>4, <3>1, Continue DEF Reports!After
      <3>3. QED
        BY <2>1, <2>4, <3>2 DEF ReportInv, SaysWhereItIs, Said, Places, Writing
    <2>5. QED
      BY <1>6, <2>2, <2>3, <2>4 DEF WriteSlot
  <1>7. CASE SlotsWritten
    <2>1. out = <<>> /\ last' = last /\ pc = "slots"
      BY <1>7 DEF SlotsWritten
    <2>2. CASE pc' = "seed" /\ out' = out
      BY <2>1, <2>2 DEF ReportInv, SaysWhereItIs, Said, Places, Writing
    <2>3. CASE pc' = "hooks" /\ out' = <<Done("WritingContent"), Running("RunningPostHook")>>
      <3>1. Done("WritingContent") \in Reports!After(last)
        BY <2>1, AfterFacts DEF ReportInv, SaysWhereItIs, Said, LastSaid, Names, Writing
      <3>2. /\ Follows(last, out') /\ LastSaid(last, out') = Running("RunningPostHook")
            /\ out' \in Seq(Reports!Reports)
        <4>1. Running("RunningPostHook") \in Reports!After(Done("WritingContent"))
          BY AfterFacts, Zenon
        <4>2. QED
          BY <2>3, <3>1, <4>1, TwoFollow, Zenon
      <3>3. QED
        BY <2>1, <2>3, <3>2 DEF ReportInv, SaysWhereItIs, Said, Places, Writing
    <2>4. QED
      BY <1>7, <2>2, <2>3 DEF SlotsWritten
  <1>8. CASE SeedTick
    <2>1. /\ out = <<>> /\ last' = last /\ pc = "seed" /\ pc' \in {"seed", "shutdown"}
          /\ out' = <<Running("WritingContent")>>
      BY <1>8 DEF SeedTick
    <2>2. Running("WritingContent") \in Reports!After(last)
      BY <2>1, AfterFacts DEF ReportInv, SaysWhereItIs, Said, LastSaid, Names, Writing
    <2>3. /\ Follows(last, out') /\ LastSaid(last, out') = Running("WritingContent")
          /\ out' \in Seq(Reports!Reports)
      BY <2>1, <2>2, Continue DEF Reports!After
    <2>4. QED
      BY <2>1, <2>3 DEF ReportInv, SaysWhereItIs, Said, Places, Writing
  <1>9. CASE SeedCancelled
    <2>1. out = <<>> /\ last' = last /\ pc = "seed" /\ FailWith("WritingContent")
      BY <1>9 DEF SeedCancelled
    <2>2. QED
      BY <2>1, FailureReports, RunningFails DEF Names, Writing
  <1>10. CASE Shutdown
    <2>1. /\ out = <<>> /\ last' = last /\ pc = "shutdown" /\ pc' = "hooks"
          /\ out' = <<Done("WritingContent"), Running("RunningPostHook")>>
      BY <1>10 DEF Shutdown
    <2>2. Done("WritingContent") \in Reports!After(last)
      BY <2>1, AfterFacts DEF ReportInv, SaysWhereItIs, Said, LastSaid, Names, Writing
    <2>3. /\ Follows(last, out') /\ LastSaid(last, out') = Running("RunningPostHook")
          /\ out' \in Seq(Reports!Reports)
      <3>1. Running("RunningPostHook") \in Reports!After(Done("WritingContent"))
        BY AfterFacts, Zenon
      <3>2. QED
        BY <2>1, <2>2, <3>1, TwoFollow, Zenon
    <2>4. QED
      BY <2>1, <2>3 DEF ReportInv, SaysWhereItIs, Said, Places, Writing
  <1>11. CASE RunHook
    <2>1. out = <<>> /\ last' = last /\ pc = "hooks"
      BY <1>11 DEF RunHook
    <2>2. CASE FailWith("RunningPostHook")
      BY <2>1, <2>2, FailureReports, RunningFails DEF Names
    <2>3. CASE UNCHANGED <<pc, out>>
      BY <2>1, <2>3, Silent
    <2>4. QED
      BY <1>11, <2>2, <2>3 DEF RunHook
  <1>12. CASE HooksDone
    <2>1. /\ out = <<>> /\ last' = last /\ pc = "hooks" /\ pc' = "handover"
          /\ out' = <<Done("RunningPostHook"), Running("Finalizing"), Done("Finalizing"),
                      Done("Succeeded")>>
      BY <1>12 DEF HooksDone, ClosingReports
    <2>2. Done("RunningPostHook") \in Reports!After(last)
      BY <2>1, AfterFacts DEF ReportInv, SaysWhereItIs, Said, LastSaid, Names
    <2>3. Done("Finalizing") \in Reports!After(Running("Finalizing"))
      BY AfterFacts DEF Names
    <2>4. /\ Follows(last, out') /\ LastSaid(last, out') = Done("Succeeded")
          /\ out' \in Seq(Reports!Reports)
      <3>1. /\ Running("Finalizing") \in Reports!After(Done("RunningPostHook"))
            /\ Done("Succeeded") \in Reports!After(Done("Finalizing"))
        BY AfterFacts, Zenon
      <3>2. QED
        BY <2>1, <2>2, <2>3, <3>1, FourFollow, Zenon
    <2>5. QED
      BY <2>1, <2>4 DEF ReportInv, SaysWhereItIs, Said, Places, Writing
  <1>13. CASE HandOver
    <2>1. out = <<>> /\ last' = last /\ pc = "handover"
      BY <1>13 DEF HandOver
    <2>2. CASE FailWith("Succeeded")
      BY <2>1, <2>2, FailureReports, RunningFails DEF Names
    <2>3. CASE pc' = "over" /\ out' = out
      BY <2>1, <2>3 DEF ReportInv, SaysWhereItIs, Said, Places, Writing
    <2>4. QED
      BY <1>13, <2>2, <2>3 DEF HandOver
  <1>14. CASE Return
    BY <1>14 DEF Return, ReportInv, SaysWhereItIs, Said, Places, Writing
  <1>15. QED
    BY <1>1, <1>2, <1>3, <1>4, <1>5, <1>6, <1>7, <1>8, <1>9, <1>10, <1>11, <1>12, <1>13,
       <1>14 DEF Step

\* So does everything that happens around it.
LEMMA NextKeepsOrder ==
    ASSUME ReportInv, [Next]_vars
    PROVE  ReportInv'
  <1>1. CASE \E p \in Plans : Refuse(p)
    BY <1>1, Silent DEF Refuse, Reporter
  <1>2. CASE \E p \in Plans : Begin(p)
    <2>1. pc' = "check" /\ out' = <<>> /\ last' = NoReport
      BY <1>2 DEF Begin
    <2>2. QED
      BY <2>1, Continue DEF ReportInv, SaysWhereItIs, Said, LastSaid, Places, Writing
  <1>3. CASE Step
    BY <1>3, StepKeepsOrder
  <1>4. CASE TorrentFinishes \/ TorrentRipens \/ EzioDies \/ Supersede
    BY <1>4, Silent, Zenon DEF TorrentFinishes, TorrentRipens, EzioDies, Supersede, Reporter
  <1>5. CASE PowerCycle \/ StallDeadline
    <2>1. pc' = "idle" /\ out' = <<>> /\ last' = NoReport
      BY <1>5 DEF PowerCycle, StallDeadline, Reboot
    <2>2. QED
      BY <2>1, Continue DEF ReportInv, SaysWhereItIs, Said, LastSaid, Places, Writing
  <1>6. CASE UNCHANGED vars
    BY <1>6, Silent DEF vars
  <1>7. QED
    BY <1>1, <1>2, <1>3, <1>4, <1>5, <1>6 DEF Next

\* Execute returns only after a last word.
LEMMA ReturnsWithLastWord ==
    ASSUME ReportInv, pc \in {"failed", "over"}, out = <<>>
    PROVE  last \in Reports!LastWords
  <1>1. Said = last
    BY DEF Said, LastSaid
  <1>2. Reports!Opens(Len(Reports!Phases)) = Done("Succeeded")
    BY PhaseFacts DEF Done, Reports!Opens
  <1>3. CASE pc = "failed"
    <2>1. PICK p \in Names : last = Failed(p)
      BY <1>1, <1>3 DEF ReportInv, SaysWhereItIs
    <2>2. QED
      BY <2>1, ReportFacts DEF Failed, Reports!LastWords
  <1>4. CASE pc = "over"
    BY <1>1, <1>2, <1>4 DEF ReportInv, SaysWhereItIs, Reports!LastWords
  <1>5. QED
    BY <1>3, <1>4

\* Every step of the executor is a step of DeployProtocol, or changes nothing it sees.
LEMMA StepsAreReports ==
    ASSUME ReportInv, [Next]_vars
    PROVE  [Reports!Next]_<<last, pc # "idle">>
  <1>1. CASE \E p \in Plans : Refuse(p)
    BY <1>1 DEF Refuse, Reporter
  <1>2. CASE \E p \in Plans : Begin(p)
    <2>1. Reports!Begin
      BY <1>2, Zenon DEF Begin, Reports!Begin, NoReport, Reports!NoReport
    <2>2. QED
      BY <2>1 DEF Reports!Next
  <1>3. CASE Report
    <2>1. /\ pc # "idle" /\ pc' = pc /\ last' = Head(out) /\ out # <<>>
      BY <1>3 DEF Report, ReportInv
    <2>2. last' \in Reports!After(last)
      BY <2>1, SendFirst DEF ReportInv
    <2>3. Reports!Send
      BY <2>1, <2>2 DEF Reports!Send
    <2>4. QED
      BY <2>3 DEF Reports!Next
  <1>4. CASE Return
    <2>1. Reports!Return
      BY <1>4, ReturnsWithLastWord DEF Return, Reporter, Reports!Return
    <2>2. QED
      BY <2>1 DEF Reports!Next
  <1>5. CASE Check \/ WriteTable \/ TablesWritten \/ Launch \/ WriteSlot \/ SlotsWritten
    BY <1>5 DEF Check, WriteTable, TablesWritten, Launch, WriteSlot, SlotsWritten, FailWith, Reporter
  <1>6. CASE SeedTick \/ SeedCancelled \/ Shutdown \/ RunHook \/ HooksDone \/ HandOver
    BY <1>6 DEF SeedTick, SeedCancelled, Shutdown, RunHook, HooksDone, HandOver, FailWith, Reporter
  <1>7. CASE TorrentFinishes \/ TorrentRipens \/ EzioDies \/ Supersede
    BY <1>7, Zenon DEF TorrentFinishes, TorrentRipens, EzioDies, Supersede, Reporter
  <1>8. CASE PowerCycle \/ StallDeadline
    <2>1. Reports!Die
      BY <1>8, Zenon DEF PowerCycle, StallDeadline, Reboot, Reports!Die, NoReport, Reports!NoReport
    <2>2. QED
      BY <2>1 DEF Reports!Next
  <1>9. CASE UNCHANGED vars
    BY <1>9 DEF vars
  <1>10. QED
    BY <1>1, <1>2, <1>3, <1>4, <1>5, <1>6, <1>7, <1>8, <1>9 DEF Next, Step

\* The reports of Execute, whatever fails, is cancelled or is lost, for every plan and
\* any number of deploys, are those DeployProtocol allows: the phases in their order, each
\* opened and closed, and one last word.
THEOREM ReportsAreOrdered == Spec => ReportsInOrder
  <1>1. Init => ReportInv
    BY Continue DEF Init, ReportInv, SaysWhereItIs, Places, Writing
  <1>2. ReportInv /\ [Next]_vars => ReportInv'
    BY NextKeepsOrder
  <1>3. Init => Reports!Init
    BY Zenon DEF Init, Reports!Init, NoReport, Reports!NoReport
  <1>4. ReportInv /\ [Next]_vars => [Reports!Next]_<<last, pc # "idle">>
    BY StepsAreReports
  <1>5. QED
    BY <1>1, <1>2, <1>3, <1>4, PTL DEF Spec, ReportsInOrder, Reports!Spec

-----------------------------------------------------------------------------
(* The daemon.                                                             *)

\* The daemon runs only between its launch and the end of Execute.
DaemonInv == ezio = "up" => pc \in {"slots", "seed", "shutdown", "hooks", "handover"}

\* Whichever way Execute ends, the daemon it launched is gone.
THEOREM DaemonIsStopped == Spec => []NoDaemonLeft
  <1>1. Init => DaemonInv
    BY DEF Init, DaemonInv
  <1>2. ASSUME DaemonInv, [Next]_vars
        PROVE  DaemonInv'
    <2> USE DEF DaemonInv, FailWith, Reporter
    <2>1. CASE \E p \in Plans : Refuse(p) \/ Begin(p)
      BY <1>2, <2>1 DEF Refuse, Begin
    <2>2. CASE Report
      BY <1>2, <2>2 DEF Report
    <2>3. CASE Check \/ WriteTable \/ TablesWritten \/ Launch
      BY <1>2, <2>3 DEF Check, WriteTable, TablesWritten, Launch
    <2>4. CASE WriteSlot
      BY <1>2, <2>4 DEF WriteSlot
    <2>5. CASE SlotsWritten \/ SeedTick \/ SeedCancelled \/ Shutdown
      BY <1>2, <2>5 DEF SlotsWritten, SeedTick, SeedCancelled, Shutdown
    <2>6. CASE RunHook \/ HooksDone \/ HandOver \/ Return
      BY <1>2, <2>6 DEF RunHook, HooksDone, HandOver, Return
    <2>7. CASE TorrentFinishes \/ TorrentRipens \/ EzioDies \/ Supersede
      BY <1>2, <2>7 DEF TorrentFinishes, TorrentRipens, EzioDies, Supersede
    <2>8. CASE PowerCycle \/ StallDeadline
      BY <2>8 DEF PowerCycle, StallDeadline, Reboot
    <2>9. CASE UNCHANGED vars
      BY <1>2, <2>9 DEF vars
    <2>10. QED
      BY <1>2, <2>1, <2>2, <2>3, <2>4, <2>5, <2>6, <2>7, <2>8, <2>9 DEF Next, Step
  <1>3. DaemonInv => NoDaemonLeft
    BY DEF DaemonInv, NoDaemonLeft
  <1>4. QED
    BY <1>1, <1>2, <1>3, PTL DEF Spec

-----------------------------------------------------------------------------
(* Content.                                                                *)

\* Slot j of disk plan i has been made or handed to the daemon.
Attended(i, j) ==
    DevicePartitionPath(Plan(i), Plan(i).slots[j]) \in written \cup DOMAIN torrents

Complete == Devices(plan) \subseteq written

\* While the slots are walked, every one before the current is attended to, and the
\* current one exists.
SlotsInv ==
    /\ at[1] > 0 /\ at[2] > 0
    /\ at[1] <= Len(DiskPlans(plan)) => at[2] <= Len(Plan(at[1]).slots)
    /\ \A i \in DOMAIN DiskPlans(plan) : \A j \in DOMAIN Plan(i).slots :
          i < at[1] \/ (i = at[1] /\ j < at[2]) => Attended(i, j)

\* What the daemon has been given, and what it says of it.
TorrentsInv ==
    /\ pc \in {"idle", "check", "tables", "launch", "over", "failed"} => torrents = <<>>
    /\ DOMAIN torrents \subseteq TorrentsOf(plan)
    /\ \A t \in DOMAIN torrents : torrents[t] \in {"finished", "ripe", "paused"} => t \in written

\* Success is reported at the very end.
SuccessInv ==
    /\ last = Done("Succeeded") => Complete /\ pc \in {"handover", "over", "failed", "idle"}
    /\ \A i \in DOMAIN out : out[i] = Done("Succeeded") => pc = "handover"

ContentInv ==
    /\ at \in Nat \X Nat
    /\ pc # "idle" => plan \in Plans /\ Validate(plan)
    /\ TorrentsInv
    /\ pc = "launch" => at = <<1, 1>>
    /\ pc = "slots" => SlotsInv
    /\ pc = "seed" => Devices(plan) \subseteq written \cup DOMAIN torrents
    /\ pc \in {"shutdown", "hooks", "handover", "over"} => Complete
    /\ SuccessInv

\* The disks of a valid plan are a sequence, and each has slots.
LEMMA DiskPlanFacts ==
    ASSUME NEW p \in Plans, Validate(p)
    PROVE  /\ DiskPlans(p) \in Seq(DeployDataImagePlan)
           /\ \A i \in DOMAIN DiskPlans(p) : DiskPlans(p)[i].slots # <<>>
  <1> DEFINE os == IF p.targetDisk = "" THEN <<>>
                   ELSE <<[targetDisk |-> p.targetDisk, slots |-> p.slots, needs |-> p.needs]>>
  <1>1. /\ p.targetDisk \in STRING /\ p.slots \in Seq(DeploySlot) /\ p.needs \in Nat
        /\ p.dataImages \in Seq(DeployDataImagePlan)
    BY PlansAssumption DEF DeployPlan
  <1>2. os \in Seq(DeployDataImagePlan) /\ \A i \in DOMAIN os : os[i].slots # <<>>
    <2>1. CASE p.targetDisk = ""
      <3>1. os = <<>>
        BY <2>1, Zenon
      <3> HIDE DEF os
      <3>2. QED
        BY <3>1
    <2>2. CASE p.targetDisk # ""
      <3> DEFINE dp == [targetDisk |-> p.targetDisk, slots |-> p.slots, needs |-> p.needs]
      <3>1. dp \in DeployDataImagePlan
        BY <1>1 DEF DeployDataImagePlan
      <3>2. dp.slots # <<>>
        BY <2>2, Zenon DEF Validate, SlotsWellFormed
      <3>3. os = <<dp>>
        BY <2>2, Zenon
      <3> HIDE DEF os, dp
      <3>4. QED
        BY <3>1, <3>2, <3>3
    <2>3. QED
      BY <2>1, <2>2, Zenon
  <1>3. \A i \in DOMAIN p.dataImages : p.dataImages[i].slots # <<>>
    BY Zenon DEF Validate, SlotsWellFormed
  <1>4. DiskPlans(p) = os \o p.dataImages
    BY DEF DiskPlans
  <1> HIDE DEF os
  <1>5. DiskPlans(p) \in Seq(DeployDataImagePlan)
    BY <1>1, <1>2, <1>4
  <1>6. ASSUME NEW i \in DOMAIN DiskPlans(p)
        PROVE  DiskPlans(p)[i].slots # <<>>
    <2>1. /\ i \in 1..(Len(os) + Len(p.dataImages)) /\ Len(os) \in Nat
          /\ Len(p.dataImages) \in Nat
      BY <1>1, <1>2, <1>4
    <2>2. CASE i <= Len(os)
      <3>1. DiskPlans(p)[i] = os[i] /\ i \in DOMAIN os
        BY <1>1, <1>2, <1>4, <2>1, <2>2
      <3>2. QED
        BY <1>2, <3>1
    <2>3. CASE i > Len(os)
      <3>1. DiskPlans(p)[i] = p.dataImages[i - Len(os)] /\ i - Len(os) \in DOMAIN p.dataImages
        BY <1>1, <1>2, <1>4, <2>1, <2>3
      <3>2. QED
        BY <1>3, <3>1
    <2>4. QED
      BY <2>1, <2>2, <2>3
  <1>7. QED
    BY <1>5, <1>6

\* A step that fails forgets the torrents and says so; what it wrote stays.
LEMMA FailureKeepsContent ==
    ASSUME NEW phase, ContentInv, pc # "idle", FailWith(phase), last' = last, plan' = plan,
           written' = written \/ last # Done("Succeeded")
    PROVE  ContentInv'
  <1>1. /\ pc' = "failed" /\ out' = <<<<phase, "failed">>>> /\ torrents' = <<>> /\ at' = at
    BY DEF FailWith
  <1>2. DOMAIN torrents' = {}
    BY <1>1
  <1>3. TorrentsInv'
    BY <1>1, <1>2 DEF TorrentsInv
  <1>4. SuccessInv'
    BY <1>1 DEF ContentInv, SuccessInv, Complete, Done
  <1>5. QED
    BY <1>1, <1>3, <1>4 DEF ContentInv

\* Reporting, and what happens outside, leaves the content as it is.
LEMMA NothingWritten ==
    ASSUME ContentInv, UNCHANGED <<plan, pc, at, written, torrents>>, SuccessInv'
    PROVE  ContentInv'
  BY DEF ContentInv, SlotsInv, TorrentsInv, Attended, Complete, Plan

\* Every slot is attended to before the seeding or the hooks begin.
LEMMA SlotStep ==
    ASSUME ContentInv, WriteSlot
    PROVE  ContentInv'
  <1> DEFINE dp == Plan(at[1])
             slot == dp.slots[at[2]]
             dev == DevicePartitionPath(dp, slot)
  <1>1. /\ pc = "slots" /\ at[1] <= Len(DiskPlans(plan)) /\ plan' = plan /\ last' = last
        /\ out = <<>>
    BY DEF WriteSlot, Reporter
  <1>2. CASE FailWith("WritingContent") /\ UNCHANGED written
    BY <1>1, <1>2, FailureKeepsContent
  <1>3. CASE /\ pc' = pc
             /\ at' = IF at[2] < Len(dp.slots) THEN <<at[1], at[2] + 1>> ELSE <<at[1] + 1, 1>>
             /\ \/ /\ slot.kinds = {"torrent"}
                   /\ torrents' = [t \in DOMAIN torrents \cup {dev} |->
                                     IF t = dev THEN "downloading" ELSE torrents[t]]
                   /\ UNCHANGED <<written, out>>
                \/ /\ written' = written \cup {dev}
                   /\ out' = <<Running("WritingContent")>>
                   /\ UNCHANGED torrents
    <2>1. /\ at \in Nat \X Nat /\ SlotsInv /\ plan \in Plans /\ Validate(plan)
          /\ last # Done("Succeeded")
      BY <1>1 DEF ContentInv, SuccessInv
    <2>2. /\ DiskPlans(plan) \in Seq(DeployDataImagePlan)
          /\ \A i \in DOMAIN DiskPlans(plan) : DiskPlans(plan)[i].slots # <<>>
      BY <2>1, DiskPlanFacts
    <2>3. \A i \in DOMAIN DiskPlans(plan) : Plan(i).slots \in Seq(DeploySlot)
      <3>1. \A i \in DOMAIN DiskPlans(plan) : DiskPlans(plan)[i] \in DeployDataImagePlan
        BY <2>2
      <3>2. \A d \in DeployDataImagePlan : d.slots \in Seq(DeploySlot)
        BY DEF DeployDataImagePlan
      <3>3. QED
        BY <3>1, <3>2 DEF Plan
    <2>4. at[1] \in DOMAIN DiskPlans(plan) /\ at[2] \in DOMAIN dp.slots
      BY <1>1, <2>1, <2>2, <2>3 DEF SlotsInv
    <2>5. at' \in Nat \X Nat
      BY <1>3, <2>1
    <2>6. /\ dev \in written' \cup DOMAIN torrents'
          /\ written \cup DOMAIN torrents \subseteq written' \cup DOMAIN torrents'
          /\ written \subseteq written'
      BY <1>3
    <2>7. SlotsInv'
      <3>1. at'[1] > 0 /\ at'[2] > 0
        BY <1>3, <2>1 DEF SlotsInv
      <3>2. at'[1] <= Len(DiskPlans(plan)) => at'[2] <= Len(Plan(at'[1]).slots)
        <4>1. CASE at[2] < Len(dp.slots)
          BY <1>3, <2>1, <2>3, <2>4, <4>1
        <4>2. CASE ~(at[2] < Len(dp.slots))
          <5>1. at' = <<at[1] + 1, 1>>
            BY <1>3, <4>2
          <5>2. at[1] + 1 <= Len(DiskPlans(plan)) => at[1] + 1 \in DOMAIN DiskPlans(plan)
            BY <2>1, <2>2
          <5>3. \A i \in DOMAIN DiskPlans(plan) : 1 <= Len(Plan(i).slots)
            BY <2>2, <2>3 DEF Plan
          <5>4. QED
            BY <5>1, <5>2, <5>3
        <4>3. QED
          BY <4>1, <4>2
      <3>3. ASSUME NEW i \in DOMAIN DiskPlans(plan), NEW j \in DOMAIN Plan(i).slots,
                   i < at'[1] \/ (i = at'[1] /\ j < at'[2])
            PROVE  DevicePartitionPath(Plan(i), Plan(i).slots[j]) \in written' \cup DOMAIN torrents'
        <4>1. i \in Nat /\ j \in Nat /\ j <= Len(Plan(i).slots) /\ Len(dp.slots) \in Nat
          BY <2>2, <2>3, <2>4, <3>3
        <4>2. \/ i < at[1] \/ (i = at[1] /\ j < at[2])
              \/ i = at[1] /\ j = at[2]
          <5>1. CASE at[2] < Len(dp.slots)
            BY <1>3, <2>1, <3>3, <4>1, <5>1
          <5>2. CASE ~(at[2] < Len(dp.slots))
            <6>1. at' = <<at[1] + 1, 1>>
              BY <1>3, <5>2
            <6>2. i < at[1] + 1 \/ (i = at[1] + 1 /\ j < 1)
              BY <3>3, <6>1
            <6>3. j >= 1 /\ at[1] \in Nat /\ at[2] \in Nat
              BY <2>1, <2>3, <3>3
            <6>4. i < at[1] \/ i = at[1]
              BY <4>1, <6>2, <6>3
            <6>5. i = at[1] => j < at[2] \/ j = at[2]
              BY <4>1, <5>2, <6>3
            <6>6. QED
              BY <6>4, <6>5
          <5>3. QED
            BY <5>1, <5>2
        <4>3. CASE i < at[1] \/ (i = at[1] /\ j < at[2])
          BY <2>1, <2>6, <4>3 DEF SlotsInv, Attended
        <4>4. CASE i = at[1] /\ j = at[2]
          BY <2>6, <4>4
        <4>5. QED
          BY <4>2, <4>3, <4>4
      <3>4. QED
        BY <1>1, <3>1, <3>2, <3>3 DEF SlotsInv, Attended, Plan
    <2>8. TorrentsInv'
      <3>1. slot.kinds = {"torrent"} => dev \in TorrentsOf(plan)
        BY <2>4 DEF TorrentsOf, SlotsOf, Plan
      <3>2. DOMAIN torrents' \subseteq TorrentsOf(plan)
        BY <1>3, <3>1 DEF ContentInv, TorrentsInv
      <3>3. \A t \in DOMAIN torrents' :
               torrents'[t] \in {"finished", "ripe", "paused"} => t \in written'
        BY <1>3 DEF ContentInv, TorrentsInv
      <3>4. QED
        BY <1>1, <1>3, <3>2, <3>3 DEF TorrentsInv
    <2>9. SuccessInv'
      BY <1>1, <1>3, <2>1 DEF SuccessInv, Done, Running
    <2>10. QED
      BY <1>1, <1>3, <2>1, <2>5, <2>7, <2>8, <2>9 DEF ContentInv
  <1>4. QED
    BY <1>2, <1>3 DEF WriteSlot

\* When the walk over the slots is over, all of them are attended to.
LEMMA SlotsAttended ==
    ASSUME ContentInv, pc = "slots", at[1] > Len(DiskPlans(plan))
    PROVE  Devices(plan) \subseteq written \cup DOMAIN torrents
  <1>1. DiskPlans(plan) \in Seq(DeployDataImagePlan)
    BY DiskPlanFacts DEF ContentInv
  <1>2. SUFFICES ASSUME NEW i \in DOMAIN DiskPlans(plan), NEW j \in DOMAIN Plan(i).slots
                 PROVE  Attended(i, j)
    BY DEF Devices, SlotsOf, Plan, Attended
  <1>3. i < at[1]
    BY <1>1 DEF ContentInv
  <1>4. QED
    BY <1>3 DEF ContentInv, SlotsInv

\* The walk over the slots begins at a slot, with none behind it.
LEMMA WalkBegins ==
    ASSUME plan \in Plans, Validate(plan)
    PROVE  /\ 1 <= Len(DiskPlans(plan)) => 1 <= Len(Plan(1).slots)
           /\ \A i \in DOMAIN DiskPlans(plan) : \A j \in DOMAIN Plan(i).slots :
                 ~(i < 1 \/ (i = 1 /\ j < 1))
  <1>1. /\ DiskPlans(plan) \in Seq(DeployDataImagePlan)
        /\ \A i \in DOMAIN DiskPlans(plan) : DiskPlans(plan)[i].slots # <<>>
    BY DiskPlanFacts
  <1>2. \A i \in DOMAIN DiskPlans(plan) : Plan(i).slots \in Seq(DeploySlot)
    <2>1. \A i \in DOMAIN DiskPlans(plan) : DiskPlans(plan)[i] \in DeployDataImagePlan
      BY <1>1
    <2>2. \A d \in DeployDataImagePlan : d.slots \in Seq(DeploySlot)
      BY DEF DeployDataImagePlan
    <2>3. QED
      BY <2>1, <2>2 DEF Plan
  <1>3. 1 <= Len(DiskPlans(plan)) => 1 <= Len(Plan(1).slots)
    BY <1>1, <1>2 DEF Plan
  <1>4. \A i \in DOMAIN DiskPlans(plan) : \A j \in DOMAIN Plan(i).slots :
           ~(i < 1 \/ (i = 1 /\ j < 1))
    BY <1>1, <1>2
  <1>5. QED
    BY <1>3, <1>4

\* Every step of Execute keeps to the content invariant.
LEMMA StepKeepsContent ==
    ASSUME ReportInv, ContentInv, Step
    PROVE  ContentInv'
  <1> USE DEF Reporter
  <1>1. CASE Report
    <2>1. /\ out # <<>> /\ last' = Head(out) /\ out' = Tail(out)
          /\ UNCHANGED <<plan, pc, at, written, torrents>>
      BY <1>1 DEF Report
    <2>2. /\ out \in Seq(Reports!Reports) /\ Head(out) = out[1] /\ 1 \in DOMAIN out
          /\ \A i \in DOMAIN Tail(out) : i + 1 \in DOMAIN out /\ Tail(out)[i] = out[i + 1]
      BY <2>1 DEF ReportInv
    <2>3. SuccessInv'
      BY <2>1, <2>2 DEF ContentInv, SuccessInv, Complete
    <2>4. QED
      BY <2>1, <2>3, NothingWritten
  <1>2. CASE Check
    <2>1. /\ pc = "check" /\ last' = last /\ plan' = plan /\ written' = written
          /\ last # Done("Succeeded")
      BY <1>2 DEF Check, ContentInv, SuccessInv
    <2>2. CASE FailWith("Partitioning")
      BY <2>1, <2>2, FailureKeepsContent
    <2>3. CASE pc' = "tables" /\ out' = <<Running("Partitioning")>> /\ UNCHANGED <<at, torrents>>
      <3>1. SuccessInv'
        BY <2>1, <2>3 DEF SuccessInv, Done, Running
      <3>2. QED
        BY <2>1, <2>3, <3>1 DEF ContentInv, TorrentsInv
    <2>4. QED
      BY <1>2, <2>2, <2>3 DEF Check
  <1>3. CASE WriteTable
    <2>1. /\ pc = "tables" /\ last' = last /\ plan' = plan /\ out = <<>>
          /\ last # Done("Succeeded")
      BY <1>3 DEF WriteTable, ContentInv, SuccessInv
    <2>2. CASE FailWith("Partitioning")
      BY <2>1, <2>2, FailureKeepsContent
    <2>3. CASE at' = <<at[1] + 1, 1>> /\ UNCHANGED <<pc, out, torrents>>
      <3>1. SuccessInv'
        BY <2>1, <2>3 DEF SuccessInv
      <3>2. torrents' = <<>> /\ DOMAIN torrents' = {}
        BY <2>1, <2>3 DEF ContentInv, TorrentsInv
      <3>3. QED
        BY <2>1, <2>3, <3>1, <3>2 DEF ContentInv, TorrentsInv
    <2>4. QED
      BY <1>3, <2>2, <2>3 DEF WriteTable
  <1>4. CASE TablesWritten
    <2>1. /\ pc = "tables" /\ pc' \in {"launch", "slots"} /\ at' = <<1, 1>>
          /\ out' = <<Done("Partitioning"), Running("WritingContent")>>
          /\ UNCHANGED <<plan, written, torrents, last>> /\ last # Done("Succeeded")
      BY <1>4 DEF TablesWritten, ContentInv, SuccessInv
    <2>2. SuccessInv'
      BY <2>1 DEF SuccessInv, Done, Running
    <2>3. SlotsInv'
      <3>1. plan \in Plans /\ Validate(plan)
        BY <2>1 DEF ContentInv
      <3>2. QED
        <4>1. at'[1] = 1 /\ at'[2] = 1 /\ plan' = plan
          BY <2>1
        <4>2. 1 <= Len(DiskPlans(plan)) => 1 <= Len(Plan(1).slots)
          BY <3>1, WalkBegins, Zenon
        <4>3. \A i \in DOMAIN DiskPlans(plan) : \A j \in DOMAIN Plan(i).slots :
                ~(i < 1 \/ (i = 1 /\ j < 1))
          BY <3>1, WalkBegins, Zenon
        <4>4. at'[1] > 0 /\ at'[2] > 0
          BY <4>1
        <4>5. QED
          BY <4>1, <4>2, <4>3, <4>4, Zenon DEF SlotsInv, Plan
    <2>4. QED
      BY <2>1, <2>2, <2>3 DEF ContentInv, TorrentsInv
  <1>5. CASE Launch
    <2>1. /\ pc = "launch" /\ last' = last /\ plan' = plan /\ written' = written
          /\ last # Done("Succeeded") /\ out = <<>>
      BY <1>5 DEF Launch, ContentInv, SuccessInv
    <2>2. CASE FailWith("WritingContent")
      BY <2>1, <2>2, FailureKeepsContent
    <2>3. CASE pc' = "slots" /\ UNCHANGED <<at, out, torrents>>
      <3>1. SuccessInv'
        BY <2>1, <2>3 DEF SuccessInv
      <3>2. at = <<1, 1>> /\ plan \in Plans /\ Validate(plan)
        BY <2>1 DEF ContentInv
      <3>3. SlotsInv'
        BY <2>1, <2>3, <3>2, WalkBegins DEF SlotsInv, Plan
      <3>4. QED
        BY <2>1, <2>3, <3>1, <3>3 DEF ContentInv, TorrentsInv
    <2>4. QED
      BY <1>5, <2>2, <2>3 DEF Launch
  <1>6. CASE WriteSlot
    BY <1>6, SlotStep
  <1>7. CASE SlotsWritten
    <2>1. /\ pc = "slots" /\ UNCHANGED <<plan, written, torrents, last>> /\ out = <<>>
          /\ last # Done("Succeeded") /\ at[1] > Len(DiskPlans(plan))
      BY <1>7 DEF SlotsWritten, ContentInv, SuccessInv
    <2>2. Devices(plan) \subseteq written \cup DOMAIN torrents
      BY <2>1, SlotsAttended
    <2>3. CASE pc' = "seed" /\ UNCHANGED <<at, out>>
      <3>1. SuccessInv'
        BY <2>1, <2>3 DEF SuccessInv
      <3>2. QED
        BY <2>1, <2>2, <2>3, <3>1 DEF ContentInv, TorrentsInv
    <2>4. CASE /\ TorrentsOf(plan) = {} /\ pc' = "hooks" /\ at' = <<1, 1>>
               /\ out' = <<Done("WritingContent"), Running("RunningPostHook")>>
      <3>1. SuccessInv'
        BY <2>1, <2>4 DEF SuccessInv, Done, Running
      <3>2. Devices(plan) \subseteq written
        BY <2>2, <2>4 DEF ContentInv, TorrentsInv
      <3>3. QED
        BY <2>1, <2>4, <3>1, <3>2 DEF ContentInv, TorrentsInv, Complete
    <2>5. QED
      BY <1>7, <2>3, <2>4 DEF SlotsWritten
  <1>8. CASE SeedTick
    <2>1. /\ pc = "seed" /\ pc' \in {"seed", "shutdown"} /\ UNCHANGED <<plan, written, at, last>>
          /\ out' = <<Running("WritingContent")>> /\ last # Done("Succeeded")
          /\ pc' = "shutdown" => AllStopped(torrents)
      BY <1>8 DEF SeedTick, ContentInv, SuccessInv
    <2>2. SuccessInv'
      BY <2>1 DEF SuccessInv, Done, Running
    <2>3. /\ DOMAIN torrents' = DOMAIN torrents
          /\ \A t \in DOMAIN torrents : torrents'[t] = torrents[t] \/ torrents[t] = "ripe"
      BY <1>8 DEF SeedTick, ShouldPause
    <2>4. TorrentsInv'
      BY <2>1, <2>3 DEF ContentInv, TorrentsInv
    <2>5. pc' = "shutdown" => Complete'
      BY <2>1 DEF ContentInv, TorrentsInv, AllStopped, Complete
    <2>6. QED
      BY <2>1, <2>2, <2>3, <2>4, <2>5 DEF ContentInv
  <1>9. CASE SeedCancelled
    <2>1. pc = "seed" /\ FailWith("WritingContent") /\ UNCHANGED <<plan, written, last>>
      BY <1>9 DEF SeedCancelled
    <2>2. QED
      BY <2>1, FailureKeepsContent
  <1>10. CASE Shutdown
    <2>1. /\ pc = "shutdown" /\ pc' = "hooks" /\ at' = <<1, 1>>
          /\ UNCHANGED <<plan, written, torrents, last>>
          /\ out' = <<Done("WritingContent"), Running("RunningPostHook")>>
          /\ last # Done("Succeeded")
      BY <1>10 DEF Shutdown, ContentInv, SuccessInv
    <2>2. SuccessInv'
      BY <2>1 DEF SuccessInv, Done, Running
    <2>3. QED
      BY <2>1, <2>2 DEF ContentInv, TorrentsInv, Complete
  <1>11. CASE RunHook
    <2>1. /\ pc = "hooks" /\ UNCHANGED <<plan, written, last>> /\ out = <<>>
      BY <1>11 DEF RunHook
    <2>2. CASE FailWith("RunningPostHook")
      BY <2>1, <2>2, FailureKeepsContent
    <2>3. CASE at' = <<at[1], at[2] + 1>> /\ UNCHANGED <<pc, out, torrents>>
      <3>1. SuccessInv'
        BY <2>1, <2>3 DEF ContentInv, SuccessInv, Complete
      <3>2. QED
        BY <2>1, <2>3, <3>1 DEF ContentInv, TorrentsInv, Complete
    <2>4. QED
      BY <1>11, <2>2, <2>3 DEF RunHook
  <1>12. CASE HooksDone
    <2>1. /\ pc = "hooks" /\ pc' = "handover" /\ UNCHANGED <<plan, at, written, torrents, last>>
      BY <1>12 DEF HooksDone
    <2>2. SuccessInv'
      BY <2>1 DEF ContentInv, SuccessInv, Complete
    <2>3. QED
      BY <2>1, <2>2 DEF ContentInv, TorrentsInv, Complete
  <1>13. CASE HandOver
    <2>1. /\ pc = "handover" /\ UNCHANGED <<plan, written, last>> /\ out = <<>>
      BY <1>13 DEF HandOver
    <2>2. CASE FailWith("Succeeded")
      BY <2>1, <2>2, FailureKeepsContent
    <2>3. CASE pc' = "over" /\ torrents' = <<>> /\ UNCHANGED <<at, out>>
      <3>1. SuccessInv'
        BY <2>1, <2>3 DEF ContentInv, SuccessInv, Complete
      <3>2. DOMAIN torrents' = {}
        BY <2>3
      <3>3. QED
        BY <2>1, <2>3, <3>1, <3>2 DEF ContentInv, TorrentsInv, Complete
    <2>4. QED
      BY <1>13, <2>2, <2>3 DEF HandOver
  <1>14. CASE Return
    <2>1. /\ pc \in {"failed", "over"} /\ pc' = "idle" /\ out = <<>>
          /\ UNCHANGED <<plan, at, out, written, torrents, last>>
      BY <1>14 DEF Return
    <2>2. SuccessInv'
      BY <2>1 DEF ContentInv, SuccessInv, Complete
    <2>3. QED
      BY <2>1, <2>2 DEF ContentInv, TorrentsInv, Complete
  <1>15. QED
    BY <1>1, <1>2, <1>3, <1>4, <1>5, <1>6, <1>7, <1>8, <1>9, <1>10, <1>11, <1>12, <1>13,
       <1>14 DEF Step

\* So does everything around it: a torrent that finishes is written, a reboot forgets.
LEMMA NextKeepsContent ==
    ASSUME ReportInv, ContentInv, [Next]_vars
    PROVE  ContentInv'
  <1> USE DEF Reporter
  <1>1. CASE \E p \in Plans : Refuse(p)
    <2>1. UNCHANGED <<plan, pc, at, out, last, written, torrents>>
      BY <1>1 DEF Refuse
    <2>2. QED
      BY <2>1, NothingWritten DEF ContentInv, SuccessInv, Complete
  <1>2. CASE \E p \in Plans : Begin(p)
    <2>1. PICK p \in Plans : Begin(p)
      BY <1>2
    <2>2. /\ plan' = p /\ Validate(p) /\ pc' = "check" /\ pc = "idle" /\ at' = <<1, 1>>
          /\ out' = <<>> /\ last' = NoReport /\ torrents' = torrents
      BY <2>1 DEF Begin
    <2>3. torrents' = <<>> /\ DOMAIN torrents' = {}
      BY <2>2 DEF ContentInv, TorrentsInv
    <2>4. SuccessInv'
      <3>1. last'[2] = "" /\ Done("Succeeded")[2] = "succeeded"
        BY <2>2, Zenon DEF NoReport, Done
      <3>2. DOMAIN out' = {}
        BY <2>2
      <3>3. QED
        BY <2>2, <3>1, <3>2, Zenon DEF SuccessInv
    <2>5. QED
      BY <2>2, <2>3, <2>4 DEF ContentInv, TorrentsInv
  <1>3. CASE Step
    BY <1>3, StepKeepsContent
  <1>4. CASE TorrentFinishes
    <2>1. PICK t \in Downloading : /\ torrents' = [torrents EXCEPT ![t] = "finished"]
                                   /\ written' = written \cup {t}
      BY <1>4, Zenon DEF TorrentFinishes
    <2>2. UNCHANGED <<plan, pc, at, out, last>>
      BY <1>4 DEF TorrentFinishes
    <2>3. DOMAIN torrents' = DOMAIN torrents /\ written \subseteq written' /\ t \in DOMAIN torrents
      BY <2>1 DEF Downloading
    <2>4. TorrentsInv'
      BY <2>1, <2>2, <2>3 DEF ContentInv, TorrentsInv
    <2>5. SuccessInv'
      BY <2>2, <2>3 DEF ContentInv, SuccessInv, Complete
    <2>6. SlotsInv => SlotsInv'
      BY <2>2, <2>3 DEF SlotsInv, Attended, Plan
    <2>7. QED
      BY <2>2, <2>3, <2>4, <2>5, <2>6 DEF ContentInv, Complete
  <1>5. CASE TorrentRipens
    <2>1. PICK t \in DOMAIN torrents : /\ torrents[t] = "finished"
                                       /\ torrents' = [torrents EXCEPT ![t] = "ripe"]
      BY <1>5, Zenon DEF TorrentRipens
    <2>2. UNCHANGED <<plan, pc, at, out, last, written>> /\ DOMAIN torrents' = DOMAIN torrents
      BY <1>5, <2>1 DEF TorrentRipens
    <2>3. TorrentsInv'
      BY <2>1, <2>2 DEF ContentInv, TorrentsInv
    <2>4. SuccessInv'
      BY <2>2 DEF ContentInv, SuccessInv, Complete
    <2>5. SlotsInv => SlotsInv'
      BY <2>2 DEF SlotsInv, Attended, Plan
    <2>6. QED
      BY <2>2, <2>3, <2>4, <2>5 DEF ContentInv, Complete
  <1>6. CASE EzioDies \/ Supersede
    <2>1. UNCHANGED <<plan, pc, at, out, last, written, torrents>>
      BY <1>6, Zenon DEF EzioDies, Supersede
    <2>2. QED
      BY <2>1, NothingWritten DEF ContentInv, SuccessInv, Complete
  <1>7. CASE PowerCycle \/ StallDeadline
    <2>1. /\ pc' = "idle" /\ at' = <<1, 1>> /\ out' = <<>> /\ last' = NoReport
          /\ torrents' = <<>>
      BY <1>7 DEF PowerCycle, StallDeadline, Reboot
    <2>2. DOMAIN torrents' = {}
      BY <2>1
    <2>3. SuccessInv'
      <3>1. last'[2] = "" /\ Done("Succeeded")[2] = "succeeded"
        BY <2>1, Zenon DEF NoReport, Done
      <3>2. DOMAIN out' = {}
        BY <2>1
      <3>3. QED
        BY <2>1, <3>1, <3>2, Zenon DEF SuccessInv
    <2>4. QED
      BY <2>1, <2>2, <2>3 DEF ContentInv, TorrentsInv
  <1>8. CASE UNCHANGED vars
    <2>1. UNCHANGED <<plan, pc, at, out, last, written, torrents>>
      BY <1>8 DEF vars
    <2>2. QED
      BY <2>1, NothingWritten DEF ContentInv, SuccessInv, Complete
  <1>9. QED
    BY <1>1, <1>2, <1>3, <1>4, <1>5, <1>6, <1>7, <1>8 DEF Next

\* Hooks run, success is reported and the machine is handed over only when every slot of
\* every disk holds what the plan wants: for every plan, whatever fails or is cancelled.
THEOREM ContentComesFirst == Spec => []ContentBeforeHooks
  <1>1. Init => ReportInv /\ ContentInv
    <2>1. ASSUME Init PROVE ReportInv
      BY <2>1, Continue DEF Init, ReportInv, SaysWhereItIs, Places, Writing
    <2>2. ASSUME Init PROVE ContentInv
      <3>1. DOMAIN torrents = {} /\ DOMAIN out = {}
        BY <2>2 DEF Init
      <3>2. QED
        BY <2>2, <3>1, Zenon DEF Init, ContentInv, TorrentsInv, SuccessInv, NoReport, Done
    <2>3. QED
      BY <2>1, <2>2
  <1>2. ReportInv /\ ContentInv /\ [Next]_vars => (ReportInv /\ ContentInv)'
    BY NextKeepsOrder, NextKeepsContent
  <1>3. ContentInv => ContentBeforeHooks
    BY DEF ContentInv, SuccessInv, Complete, ContentBeforeHooks
  <1>4. QED
    BY <1>1, <1>2, <1>3, PTL DEF Spec

=============================================================================
