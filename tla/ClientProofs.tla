---------------------------- MODULE ClientProofs ----------------------------
(***************************************************************************)
(* Theorems about what the client shares with other processes and with the *)
(* servers, SingleInstance, Reaper and Messages, for any number of         *)
(* processes and restarts, any command lines, and headers and bodies of    *)
(* any size; and, at the end, about all the parts together, as MCClient    *)
(* composes them: each behaves there as it does alone.                     *)
(***************************************************************************)
EXTENDS MCClient, LibraryProofs, WindowProofs, GameListProofs

(***************************************************************************)
(* SingleInstance. The pid file is unlocked, but a client called steam     *)
(* that started alone and registered in OpenSteam's directory owns it: no  *)
(* process that could still overwrite it, or link ~/.steam elsewhere, is   *)
(* under way when the client writes its pid (Undisturbed), and every later *)
(* one that reads the file finds that pid and ends (Holds).                *)
(***************************************************************************)

Undisturbed ==
    \A p, q \in Pids : p # q /\ alone[p] /\ phase[p] \in Starting => phase[q] \notin Starting

Finds(q, p) ==
    \/ phase[q] \in {"off", "ended", "running", "reading"}
    \/ phase[q] \in {"killing", "comparing"} /\ instancePid[q] = p

Registered(p) == alone[p] /\ executable[p] = "steam" /\ registered[p] = "opensteam"

Owner(p) == Registered(p) /\ phase[p] \in {"booting", "running"}

Holds ==
    \A p \in Pids : Owner(p) => /\ datalink = "opensteam" /\ pidFile["opensteam"] = p
                                /\ \A q \in Pids \ {p} : Finds(q, p)

\* Before its pid is written, and after it has switched between the clients.
Opened ==
    \A p \in Pids : Registered(p) => /\ phase[p] = "writing" => datalink = "opensteam"
                                     /\ phase[p] \notin {"switching", "linked"}

OneInv == SingleInstanceTypeOK /\ Undisturbed /\ Holds /\ Opened

-----------------------------------------------------------------------------
LEMMA OneInit == SingleInstanceInit => OneInv
<1> SUFFICES ASSUME SingleInstanceInit PROVE OneInv
  OBVIOUS
<1>1. SingleInstanceTypeOK
  BY SingleInstanceAssumption
     DEF SingleInstanceInit, SingleInstanceTypeOK, Phase, Executable, Datalink, Dir
<1>2. Undisturbed /\ Holds /\ Opened
  BY DEF SingleInstanceInit, Undisturbed, Holds, Opened, Owner, Starting
<1>3. QED
  BY <1>1, <1>2 DEF OneInv

\* A process that begins is alone only if no other is starting, and those that
\* are lose their claim.
LEMMA BeginKeeps ==
    ASSUME OneInv, NEW p \in Pids, Launch(p) \/ QuitAndRestore(p) PROVE OneInv'
<1> USE DEF OneInv
<1> DEFINE others == {q \in Pids : phase[q] \in Starting}
<1>1. /\ phase[p] \in {"off", "running"} /\ phase' = [phase EXCEPT ![p] = "reading"]
      /\ alone' = [q \in Pids |-> IF q = p THEN others = {} ELSE alone[q] /\ q \notin others]
      /\ UNCHANGED <<restarts, datalink, pidFile, registered>>
  BY DEF Launch, QuitAndRestore, Begins, Goes
<1>2. /\ \E exe \in Executable : executable' \in {executable, [executable EXCEPT ![p] = exe]}
      /\ \E restore \in BOOLEAN : restoring' = [restoring EXCEPT ![p] = restore]
      /\ instancePid' \in {instancePid, [instancePid EXCEPT ![p] = NoPid]}
  BY DEF Launch, QuitAndRestore, Executable
<1>3. SingleInstanceTypeOK'
  <2>1. phase' \in [Pids -> Phase] /\ alone' \in [Pids -> BOOLEAN]
    BY <1>1 DEF SingleInstanceTypeOK, Phase
  <2>2. /\ executable' \in [Pids -> Executable] /\ restoring' \in [Pids -> BOOLEAN]
        /\ instancePid' \in [Pids -> Pids \cup {NoPid}]
    BY <1>2 DEF SingleInstanceTypeOK
  <2>3. QED
    BY <1>1, <2>1, <2>2 DEF SingleInstanceTypeOK
<1>4. ASSUME NEW q \in Pids, q # p
      PROVE  /\ phase'[q] = phase[q] /\ executable'[q] = executable[q]
             /\ instancePid'[q] = instancePid[q]
             /\ alone'[q] => alone[q] /\ phase[q] \notin Starting
  BY <1>1, <1>2, <1>4 DEF SingleInstanceTypeOK
<1>5. /\ phase'[p] = "reading"
      /\ alone'[p] => \A q \in Pids : phase[q] \notin Starting
  BY <1>1 DEF SingleInstanceTypeOK
<1>6. Undisturbed'
  BY <1>4, <1>5 DEF Undisturbed
<1>7. ASSUME NEW x \in Pids, Owner(x)'
      PROVE  /\ datalink' = "opensteam" /\ pidFile'["opensteam"] = x
             /\ \A q \in Pids \ {x} : Finds(q, x)'
  <2>1. x # p
    BY <1>5, <1>7 DEF Owner
  <2>2. Owner(x)
    BY <1>1, <1>4, <1>7, <2>1 DEF Owner, Registered
  <2>3. /\ datalink = "opensteam" /\ pidFile["opensteam"] = x
        /\ \A q \in Pids \ {x} : Finds(q, x)
    BY <2>2 DEF Holds
  <2>4. \A q \in Pids \ {x} : Finds(q, x)'
    BY <1>4, <1>5, <2>3 DEF Finds
  <2>5. QED
    BY <1>1, <2>3, <2>4
<1>8. Opened'
  BY <1>1, <1>4, <1>5 DEF Opened, Registered, Starting, Phase
<1>9. QED
  BY <1>3, <1>6, <1>7, <1>8 DEF Holds

\* What a process that is starting finds: an owner runs already, and has the file.
LEMMA OwnerFound ==
    ASSUME OneInv, NEW p \in Pids, NEW x \in Pids \ {p}, Owner(x), phase[p] \in Starting
    PROVE  /\ phase[x] = "running" /\ executable[x] = "steam"
           /\ datalink = "opensteam" /\ pidFile["opensteam"] = x
           /\ \/ phase[p] = "reading"
              \/ phase[p] \in {"killing", "comparing"} /\ instancePid[p] = x
BY DEF OneInv, Undisturbed, Holds, Owner, Registered, Finds, Starting, Phase

\* A process that goes on keeps the invariant when the owners keep the file
\* and it does not become one beside them.
LEMMA GoesKeeps ==
    ASSUME OneInv, NEW p \in Pids, NEW to \in Phase, Goes(p, to),
           SingleInstanceTypeOK',
           \A q \in Pids \ {p} : /\ alone'[q] = alone[q] /\ executable'[q] = executable[q]
                                 /\ registered'[q] = registered[q]
                                 /\ instancePid'[q] = instancePid[q],
           \/ to = "ended" /\ (phase[p] \in Starting \/ datalink' = datalink)
           \/ /\ phase[p] \in Starting
              /\ alone'[p] = alone[p] /\ executable'[p] = executable[p],
           \A x \in Pids \ {p} : Owner(x) => /\ datalink' = "opensteam"
                                             /\ pidFile'["opensteam"] = x /\ Finds(p, x)',
           Owner(p)' => datalink' = "opensteam" /\ pidFile'["opensteam"] = p,
           Registered(p)' => /\ to = "writing" => datalink' = "opensteam"
                             /\ to \notin {"switching", "linked"}
    PROVE  OneInv'
<1>1. phase'[p] = to /\ \A q \in Pids \ {p} : phase'[q] = phase[q]
  BY DEF Goes, OneInv, SingleInstanceTypeOK
<1>2. Undisturbed'
  BY <1>1 DEF OneInv, Undisturbed, Starting
<1>3. ASSUME NEW x \in Pids, Owner(x)'
      PROVE  /\ datalink' = "opensteam" /\ pidFile'["opensteam"] = x
             /\ \A q \in Pids \ {x} : Finds(q, x)'
  <2>1. CASE x # p
    <3>1. Owner(x)
      BY <1>1, <1>3, <2>1 DEF Owner, Registered
    <3>2. /\ datalink' = "opensteam" /\ pidFile'["opensteam"] = x /\ Finds(p, x)'
      BY <2>1, <3>1
    <3>3. ASSUME NEW q \in Pids \ {x}, q # p PROVE Finds(q, x)'
      <4>1. Finds(q, x)
        BY <3>1 DEF OneInv, Holds
      <4>2. QED
        BY <1>1, <3>3, <4>1 DEF Finds
    <3>4. QED
      BY <3>2, <3>3
  <2>2. CASE x = p
    <3>1. alone[p] /\ phase[p] \in Starting
      BY <1>1, <1>3, <2>2 DEF Owner, Registered
    <3>2. ASSUME NEW q \in Pids \ {x} PROVE Finds(q, x)'
      <4>1. phase[q] \in Phase \ Starting
        BY <2>2, <3>1 DEF OneInv, Undisturbed, SingleInstanceTypeOK
      <4>2. QED
        BY <1>1, <2>2, <4>1 DEF Finds, Starting
    <3>3. QED
      BY <1>3, <2>2, <3>2
  <2>3. QED
    BY <2>1, <2>2
<1>4. Opened'
  <2>1. ASSUME NEW x \in Pids \ {p}, Registered(x)'
        PROVE  /\ phase'[x] = "writing" => datalink' = "opensteam"
               /\ phase'[x] \notin {"switching", "linked"}
    <3>1. Registered(x) /\ phase'[x] = phase[x]
      BY <1>1, <2>1 DEF Registered
    <3>2. phase[x] = "writing" => phase[p] \notin Starting
      BY <3>1 DEF OneInv, Undisturbed, Registered, Starting, Phase
    <3>3. phase[x] = "writing" => datalink' = datalink
      BY <3>2
    <3>4. QED
      BY <3>1, <3>3 DEF OneInv, Opened
  <2>2. QED
    BY <1>1, <2>1 DEF Opened
<1>5. QED
  BY <1>2, <1>3, <1>4 DEF OneInv, Holds

\* A process that only goes on: the types after it.
LEMMA GoesOnType ==
    ASSUME SingleInstanceTypeOK, NEW p \in Pids, NEW to \in Phase, GoesOn(p, to),
           datalink' \in Datalink
    PROVE  SingleInstanceTypeOK'
BY DEF GoesOn, Goes, SingleInstanceTypeOK

\* The end of a process: it hides nothing of the others.
LEMMA TerminatesKeeps ==
    ASSUME OneInv, NEW p \in Pids, Terminates(p), datalink' \in Datalink,
           phase[p] \in Starting \/ datalink' = datalink,
           datalink' = datalink \/ \A x \in Pids \ {p} : ~Owner(x)
    PROVE  OneInv'
<1>1. /\ Goes(p, "ended") /\ pidFile' = pidFile /\ "ended" \in Phase
      /\ \A q \in Pids \ {p} : /\ alone'[q] = alone[q] /\ executable'[q] = executable[q]
                               /\ registered'[q] = registered[q]
                               /\ instancePid'[q] = instancePid[q]
  BY DEF Terminates, OneInv, SingleInstanceTypeOK, Phase
<1>2. SingleInstanceTypeOK'
  <2>1. phase' \in [Pids -> Phase]
    BY <1>1 DEF Goes, OneInv, SingleInstanceTypeOK
  <2>2. /\ executable' \in [Pids -> Executable] /\ restoring' \in [Pids -> BOOLEAN]
        /\ restarts' \in [Pids -> 0..MaxRestarts]
    BY SingleInstanceAssumption DEF Terminates, OneInv, SingleInstanceTypeOK, Executable
  <2>3. /\ instancePid' \in [Pids -> Pids \cup {NoPid}] /\ registered' \in [Pids -> Dir]
        /\ alone' \in [Pids -> BOOLEAN]
    BY DEF Terminates, OneInv, SingleInstanceTypeOK, Dir
  <2>4. QED
    BY <1>1, <2>1, <2>2, <2>3 DEF OneInv, SingleInstanceTypeOK
<1>3. phase'[p] = "ended" /\ registered'[p] = "nowhere"
  BY <1>1 DEF Terminates, Goes, OneInv, SingleInstanceTypeOK
<1>4. ASSUME NEW x \in Pids \ {p}, Owner(x)
      PROVE  datalink' = "opensteam" /\ pidFile'["opensteam"] = x /\ Finds(p, x)'
  BY <1>1, <1>3, <1>4 DEF OneInv, Holds, Finds
<1>5. ~Registered(p)'
  BY <1>3 DEF Registered
<1>6. QED
  BY <1>1, <1>2, <1>4, <1>5, GoesKeeps DEF Owner

LEMMA EndKeeps == ASSUME OneInv, NEW p \in Pids, Ends(p) PROVE OneInv'
BY TerminatesKeeps DEF Ends, OneInv, SingleInstanceTypeOK

LEMMA ReadKeeps == ASSUME OneInv, NEW p \in Pids, ReadPidFile(p) PROVE OneInv'
<1> DEFINE named == pidFile[Here]
           to == IF named \in Pids \ {p} THEN "killing" ELSE "truncating"
<1>1. /\ phase[p] = "reading" /\ Goes(p, to) /\ to \in Phase /\ to \in {"killing", "truncating"}
      /\ instancePid' = [instancePid EXCEPT ![p] = IF named \in Pids THEN named ELSE NoPid]
      /\ UNCHANGED <<executable, restoring, restarts, datalink, pidFile, registered, alone>>
  BY DEF ReadPidFile, Phase
<1>2. SingleInstanceTypeOK'
  BY <1>1 DEF Goes, OneInv, SingleInstanceTypeOK
<1>3. ASSUME NEW x \in Pids \ {p}, Owner(x)
      PROVE  datalink' = "opensteam" /\ pidFile'["opensteam"] = x /\ Finds(p, x)'
  <2>1. datalink = "opensteam" /\ pidFile["opensteam"] = x
    BY <1>1, <1>3, OwnerFound DEF Starting, Phase
  <2>2. named = x
    BY <2>1 DEF Here
  <2>3. phase'[p] = "killing" /\ instancePid'[p] = x
    BY <1>1, <2>2 DEF Goes, OneInv, SingleInstanceTypeOK
  <2>4. QED
    BY <1>1, <2>1, <2>3 DEF Finds
<1>4. \A q \in Pids \ {p} : instancePid'[q] = instancePid[q]
  BY <1>1 DEF OneInv, SingleInstanceTypeOK
<1>5. phase'[p] = to
  BY <1>1 DEF Goes, OneInv, SingleInstanceTypeOK
<1> HIDE DEF to, named
<1>6. ~Owner(p)'
  BY <1>1, <1>5 DEF Owner
<1>7. to \notin {"writing", "switching", "linked", "ended"} /\ phase[p] \in Starting
  BY <1>1 DEF Starting, Phase
<1>8. QED
  BY <1>1, <1>2, <1>3, <1>4, <1>6, <1>7, GoesKeeps

LEMMA CheckKeeps ==
    ASSUME OneInv, NEW p \in Pids, KillNothing(p) \/ CompareExecutable(p) PROVE OneInv'
<1>1. phase[p] \in {"killing", "comparing"} /\ datalink' = datalink /\ phase[p] \in Starting
  BY DEF KillNothing, CompareExecutable, Starting, Phase
<1>2. CASE Terminates(p)
  BY <1>1, <1>2, TerminatesKeeps DEF OneInv, SingleInstanceTypeOK
<1>3. ASSUME NEW to \in {"comparing", "truncating"}, GoesOn(p, to),
             to = "comparing" => phase[p] = "killing",
             to = "truncating" =>
                 \/ ~Alive(instancePid[p])
                 \/ phase[p] = "comparing" /\ executable[instancePid[p]] # "steam"
      PROVE  OneInv'
  <2>1. to \in Phase
    BY DEF Phase
  <2>2. SingleInstanceTypeOK'
    BY <1>1, <1>3, <2>1, GoesOnType DEF OneInv, SingleInstanceTypeOK
  <2>3. /\ Goes(p, to)
        /\ UNCHANGED <<executable, pidFile, instancePid, registered, alone>>
    BY <1>3 DEF GoesOn
  <2>4. phase'[p] = to
    BY <2>3 DEF Goes, OneInv, SingleInstanceTypeOK
  <2>5. ASSUME NEW x \in Pids \ {p}, Owner(x)
        PROVE  datalink' = "opensteam" /\ pidFile'["opensteam"] = x /\ Finds(p, x)'
    <3>1. /\ phase[x] = "running" /\ executable[x] = "steam" /\ instancePid[p] = x
          /\ datalink = "opensteam" /\ pidFile["opensteam"] = x
      BY <1>1, <2>5, OwnerFound
    <3>2. Alive(x)
      BY <3>1 DEF Alive
    <3>3. to # "truncating"
      BY <1>3, <3>1, <3>2
    <3>4. QED
      BY <1>1, <2>3, <2>4, <3>1, <3>3 DEF Finds
  <2>6. ~Owner(p)'
    BY <2>4 DEF Owner
  <2>7. to \notin {"writing", "switching", "linked"}
    OBVIOUS
  <2>8. QED
    BY <1>1, <2>1, <2>2, <2>3, <2>5, <2>6, <2>7, GoesKeeps
<1>4. CASE KillNothing(p)
  BY <1>3, <1>4 DEF KillNothing
<1>5. CASE CompareExecutable(p)
  BY <1>2, <1>3, <1>5 DEF CompareExecutable
<1>6. QED
  BY <1>4, <1>5

\* A process that gets to the file has it to itself.
LEMMA WriteKeeps ==
    ASSUME OneInv, NEW p \in Pids, TruncatePidFile(p) \/ WritePidFile(p) PROVE OneInv'
<1>1. /\ phase[p] \in {"truncating", "writing"} /\ phase[p] \in Starting
      /\ UNCHANGED <<executable, restoring, restarts, datalink, alone>>
  BY DEF TruncatePidFile, WritePidFile, Starting, Phase
<1>2. \A x \in Pids \ {p} : ~Owner(x)
  BY <1>1, OwnerFound
<1>3. CASE TruncatePidFile(p)
  <2>1. /\ Goes(p, "writing") /\ registered' = [registered EXCEPT ![p] = Here]
        /\ pidFile' \in {pidFile, [pidFile EXCEPT ![Here] = EmptyFile]}
        /\ instancePid' = instancePid
    BY <1>3 DEF TruncatePidFile
  <2>2. Here \in Dir /\ (Here = "opensteam" => datalink = "opensteam")
    BY DEF Here, Dir, Datalink, OneInv, SingleInstanceTypeOK
  <2>3. SingleInstanceTypeOK'
    BY <1>1, <2>1, <2>2 DEF Goes, OneInv, SingleInstanceTypeOK, Phase
  <2>4. phase'[p] = "writing" /\ registered'[p] = Here
        /\ \A q \in Pids \ {p} : registered'[q] = registered[q]
    BY <2>1 DEF Goes, OneInv, SingleInstanceTypeOK
  <2>5. ~Owner(p)' /\ (Registered(p)' => datalink' = "opensteam")
    BY <1>1, <2>2, <2>4 DEF Owner, Registered
  <2>6. "writing" \in Phase
    BY DEF Phase
  <2>7. QED
    BY <1>1, <1>2, <2>1, <2>3, <2>4, <2>5, <2>6, GoesKeeps
<1>4. CASE WritePidFile(p)
  <2>1. /\ Goes(p, "booting") /\ registered' = registered
        /\ instancePid' = [instancePid EXCEPT ![p] = p]
        /\ pidFile' = IF registered[p] = "nowhere" THEN pidFile
                      ELSE [pidFile EXCEPT ![registered[p]] = p]
    BY <1>4 DEF WritePidFile
  <2>2. SingleInstanceTypeOK'
    BY <1>1, <2>1 DEF Goes, OneInv, SingleInstanceTypeOK, Phase
  <2>3. registered[p] = "opensteam" => pidFile'["opensteam"] = p
    BY <2>1 DEF OneInv, SingleInstanceTypeOK, Dir
  <2>4. Registered(p)' => Registered(p)
    BY <1>1, <2>1 DEF Registered
  <2>5. phase[p] = "writing"
    BY <1>4 DEF WritePidFile
  <2>6. Registered(p) => datalink = "opensteam" /\ registered[p] = "opensteam"
    BY <2>5 DEF OneInv, Opened, Registered
  <2>7. Owner(p)' => datalink' = "opensteam" /\ pidFile'["opensteam"] = p
    BY <1>1, <2>3, <2>4, <2>6 DEF Owner
  <2>8. \A q \in Pids \ {p} : instancePid'[q] = instancePid[q]
    BY <2>1 DEF OneInv, SingleInstanceTypeOK
  <2>9. "booting" \in Phase
    BY DEF Phase
  <2>10. QED
    BY <1>1, <1>2, <2>1, <2>2, <2>7, <2>8, <2>9, GoesKeeps
<1>5. QED
  BY <1>3, <1>4

\* A process past the check finds no owner but itself, and while it is one
\* ~/.steam stays.
LEMMA PastCheck ==
    ASSUME OneInv, NEW p \in Pids,
           phase[p] \in {"booting", "switching", "linked", "settingUp", "restoring"}
    PROVE  /\ phase[p] \in Starting /\ \A x \in Pids \ {p} : ~Owner(x)
           /\ Registered(p) /\ phase[p] = "booting" =>
                  datalink = "opensteam" /\ pidFile["opensteam"] = p
<1>1. phase[p] \in Starting
  BY DEF Starting, Phase
<1>2. QED
  BY <1>1, OwnerFound DEF OneInv, Holds, Owner

LEMMA RestartKeeps ==
    ASSUME OneInv, NEW p \in Pids, Restarts(p), datalink' \in Datalink,
           phase[p] \in {"booting", "settingUp"}
    PROVE  OneInv'
<1>1. /\ Goes(p, "reading") /\ restarts[p] < MaxRestarts
      /\ restarts' = [restarts EXCEPT ![p] = @ + 1]
      /\ instancePid' = [instancePid EXCEPT ![p] = NoPid]
      /\ UNCHANGED <<executable, restoring, pidFile, registered, alone>>
  BY DEF Restarts
<1>2. restarts' \in [Pids -> 0..MaxRestarts]
  BY <1>1, SingleInstanceAssumption DEF OneInv, SingleInstanceTypeOK
<1>3. SingleInstanceTypeOK'
  BY <1>1, <1>2 DEF Goes, OneInv, SingleInstanceTypeOK, Phase
<1>4. phase'[p] = "reading" /\ \A q \in Pids \ {p} : instancePid'[q] = instancePid[q]
  BY <1>1 DEF Goes, OneInv, SingleInstanceTypeOK
<1>5. ~Owner(p)' /\ "reading" \in Phase
  BY <1>4 DEF Owner, Phase
<1>6. QED
  BY <1>1, <1>3, <1>4, <1>5, PastCheck, GoesKeeps

\* The bootstrapper's steps that do not restart the process.
LEMMA GoesOnKeeps ==
    ASSUME OneInv, NEW p \in Pids,
           NEW to \in {"switching", "settingUp", "linked", "running", "restoring"},
           GoesOn(p, to), datalink' \in Datalink,
           phase[p] \in {"booting", "switching", "linked"},
           to \in {"switching", "linked"} =>
               phase[p] = "switching" \/ (phase[p] = "booting" /\ datalink # "opensteam"),
           to = "running" => datalink' = datalink /\ phase[p] # "switching"
    PROVE  OneInv'
<1>1. /\ Goes(p, to) /\ UNCHANGED <<executable, pidFile, instancePid, registered, alone>>
      /\ to \in Phase
  BY DEF GoesOn, Phase
<1>2. SingleInstanceTypeOK'
  BY <1>1, GoesOnType DEF OneInv
<1>3. phase'[p] = to /\ (Registered(p)' => Registered(p))
  BY <1>1 DEF Goes, OneInv, SingleInstanceTypeOK, Registered
<1>4. Registered(p) => phase[p] = "booting" /\ datalink = "opensteam" /\ pidFile["opensteam"] = p
  BY PastCheck DEF OneInv, Opened
<1>5. Owner(p)' => datalink' = "opensteam" /\ pidFile'["opensteam"] = p
  BY <1>1, <1>3, <1>4 DEF Owner
<1>6. Registered(p)' => to \notin {"switching", "linked"}
  BY <1>3, <1>4
<1>7. QED
  BY <1>1, <1>2, <1>5, <1>6, PastCheck, GoesKeeps

LEMMA BootKeeps ==
    ASSUME OneInv, NEW p \in Pids,
           \/ SetLdLibraryPath(p) \/ SwitchesToOpenSteam(p) \/ SetsUpOpenSteam(p)
           \/ LinksToOpenSteam(p) \/ Boots(p) \/ RestoresValveSteam(p) \/ LinksToValves(p)
    PROVE  OneInv'
<1> USE DEF Datalink
<1>0. datalink \in Datalink
  BY DEF OneInv, SingleInstanceTypeOK
<1>1. CASE SetLdLibraryPath(p)
  BY <1>0, <1>1, RestartKeeps DEF SetLdLibraryPath
<1>2. CASE SwitchesToOpenSteam(p)
  BY <1>2, GoesOnKeeps DEF SwitchesToOpenSteam
<1>3. CASE SetsUpOpenSteam(p)
  BY <1>3, GoesOnKeeps DEF SetsUpOpenSteam
<1>4. CASE LinksToOpenSteam(p)
  <2>1. CASE phase[p] = "switching" /\ GoesOn(p, "linked")
    BY <1>4, <2>1, GoesOnKeeps DEF LinksToOpenSteam
  <2>2. CASE phase[p] = "settingUp" /\ Restarts(p)
    BY <1>4, <2>2, RestartKeeps DEF LinksToOpenSteam
  <2>3. QED
    BY <1>4, <2>1, <2>2 DEF LinksToOpenSteam
<1>5. CASE Boots(p)
  BY <1>0, <1>5, GoesOnKeeps DEF Boots
<1>6. CASE RestoresValveSteam(p)
  <2>1. phase[p] = "booting" /\ datalink' \in Datalink
    BY <1>0, <1>6 DEF RestoresValveSteam
  <2>2. CASE GoesOn(p, "restoring")
    BY <2>1, <2>2, GoesOnKeeps
  <2>3. CASE Terminates(p)
    BY <2>1, <2>3, TerminatesKeeps, PastCheck
  <2>4. QED
    BY <1>6, <2>2, <2>3 DEF RestoresValveSteam
<1>7. CASE LinksToValves(p)
  BY <1>7, TerminatesKeeps, PastCheck DEF LinksToValves
<1>8. QED
  BY <1>1, <1>2, <1>3, <1>4, <1>5, <1>6, <1>7

LEMMA OneNext == OneInv /\ [SingleInstanceNext]_singleInstanceVars => OneInv'
<1> SUFFICES ASSUME OneInv, [SingleInstanceNext]_singleInstanceVars PROVE OneInv'
  OBVIOUS
<1>1. CASE SingleInstanceNext
  BY <1>1, BeginKeeps, EndKeeps, ReadKeeps, CheckKeeps, WriteKeeps, BootKeeps
     DEF SingleInstanceNext
<1>2. CASE UNCHANGED singleInstanceVars
  BY <1>2 DEF singleInstanceVars, OneInv, SingleInstanceTypeOK, Undisturbed, Holds, Opened,
              Owner, Registered, Finds
<1>3. QED
  BY <1>1, <1>2

LEMMA OneAlways == SingleInstanceSpec => []OneInv
<1>1. QED
  BY OneInit, OneNext, PTL DEF SingleInstanceSpec

-----------------------------------------------------------------------------
(* What follows *)

\* The types of SingleInstance's variables.
THEOREM SingleInstanceTypeCorrect == SingleInstanceSpec => []SingleInstanceTypeOK
<1>1. OneInv => SingleInstanceTypeOK
  BY DEF OneInv
<1>2. QED
  BY <1>1, OneAlways, PTL

\* However many clients called steam come and go, switch, restart and die, two
\* of them run side by side only if one was not alone when it started, or had
\* its pid written elsewhere than in OpenSteam's directory
\* (SingleInstanceMgr::BCheckForInstance).
THEOREM RegisteredMeansAlone == SingleInstanceSpec => []RegisteredRunsAlone
<1>1. ASSUME OneInv, NEW p \in Pids, NEW q \in Pids, p # q, Owner(p), Owner(q) PROVE FALSE
  BY <1>1 DEF OneInv, Holds
<1>2. OneInv => RegisteredRunsAlone
  BY <1>1 DEF RegisteredRunsAlone, RunsAlone, Owner, Registered
<1>3. QED
  BY <1>2, OneAlways, PTL

-----------------------------------------------------------------------------
(***************************************************************************)
(* Reaper. reaper ends when none of its own children is left. That nobody  *)
(* else is left then takes an argument about the whole family: every       *)
(* process that has not been waited for has reaper or a living process as  *)
(* its parent (HasParent), and no set of such processes are only each      *)
(* other's parents (Rooted). The second is an induction along the parents, *)
(* stated over sets because reaper keeps no order of birth.                *)
(***************************************************************************)

\* Not waited for yet.
Unreaped(q) == procStatus[q] \in {"alive", "zombie"}

EmptyUnlessWaiting == reaper # "waiting" => \A q \in Procs : ~Unreaped(q)

HasParent ==
    \A q \in Procs : Unreaped(q) =>
        \/ procParent[q] = TheReaper
        \/ procParent[q] \in Procs /\ procStatus[procParent[q]] = "alive"

Rooted ==
    \A S \in SUBSET Procs :
        S # {} /\ (\A q \in S : Unreaped(q)) => \E q \in S : procParent[q] \notin S

Family == ReaperTypeOK /\ EmptyUnlessWaiting /\ HasParent /\ Rooted

-----------------------------------------------------------------------------
\* A family without a child of reaper's is no family.
LEMMA NobodyIsLeft ==
    ASSUME ReaperTypeOK, HasParent, Rooted,
           \A p \in Procs : procParent[p] = TheReaper => procStatus[p] \in {"off", "gone"}
    PROVE  \A q \in Procs : ~Unreaped(q)
<1> DEFINE S == {q \in Procs : Unreaped(q)}
<1>1. SUFFICES ASSUME S # {} PROVE FALSE
  OBVIOUS
<1>2. PICK q \in S : procParent[q] \notin S
  BY <1>1 DEF Rooted
<1>3. procParent[q] = TheReaper
  BY <1>2 DEF HasParent, Unreaped
<1>4. QED
  BY <1>2, <1>3 DEF Unreaped

LEMMA FamilyInit == ReaperInit => Family
<1> SUFFICES ASSUME ReaperInit PROVE Family
  OBVIOUS
<1>1. ReaperTypeOK
  BY DEF ReaperInit, ReaperTypeOK
<1>2. \A q \in Procs : ~Unreaped(q)
  BY DEF ReaperInit, Unreaped
<1>3. QED
  BY <1>1, <1>2 DEF Family, EmptyUnlessWaiting, HasParent, Rooted

-----------------------------------------------------------------------------
(* The steps *)

LEMMA StartReaperKeeps ==
    ASSUME Family, NEW p \in Procs, StartReaper(p) PROVE Family'
<1> USE DEF Family
<1>1. CASE ExecutableAt(argv) = 0
  <2>1. reaper' = "failed" /\ UNCHANGED <<argv, procStatus, procParent>> /\ reaper = "starting"
    BY <1>1 DEF StartReaper
  <2>2. QED
    BY <2>1 DEF ReaperTypeOK, EmptyUnlessWaiting, HasParent, Rooted, Unreaped
<1>2. CASE ExecutableAt(argv) # 0
  <2>1. /\ reaper = "starting" /\ reaper' = "waiting" /\ argv' = argv
        /\ procStatus' = [procStatus EXCEPT ![p] = "alive"]
        /\ procParent' = [procParent EXCEPT ![p] = TheReaper]
    BY <1>2 DEF StartReaper
  <2>2. ReaperTypeOK'
    BY <2>1 DEF ReaperTypeOK
  <2>3. \A q \in Procs : Unreaped(q)' => q = p
    BY <2>1 DEF EmptyUnlessWaiting, Unreaped, ReaperTypeOK
  <2>4. procParent'[p] = TheReaper
    BY <2>1 DEF ReaperTypeOK
  <2>5. EmptyUnlessWaiting' /\ HasParent'
    BY <2>1, <2>3, <2>4 DEF EmptyUnlessWaiting, HasParent
  <2>6. Rooted'
    <3> SUFFICES ASSUME NEW S \in SUBSET Procs, S # {}, \A q \in S : Unreaped(q)'
                 PROVE  \E q \in S : procParent'[q] \notin S
      BY DEF Rooted
    <3>1. S = {p}
      BY <2>3
    <3>2. QED
      BY <2>4, <3>1, ReaperAssumption DEF TheReaper
  <2>7. QED
    BY <2>2, <2>5, <2>6
<1>3. QED
  BY <1>1, <1>2

\* A child that is waited for leaves a family that is closed all the same: who
\* is a zombie has no children.
LEMMA Waited ==
    ASSUME Family, NEW z \in Procs, procStatus[z] = "zombie",
           procStatus' = [procStatus EXCEPT ![z] = "gone"],
           UNCHANGED <<argv, reaper, procParent>>
    PROVE  Family'
<1> USE DEF Family
<1>1. ReaperTypeOK'
  BY DEF ReaperTypeOK
<1>2. \A q \in Procs : Unreaped(q)' => Unreaped(q) /\ q # z
  BY DEF ReaperTypeOK, Unreaped
<1>3. EmptyUnlessWaiting'
  BY <1>2 DEF EmptyUnlessWaiting
<1>4. HasParent'
  BY <1>2 DEF HasParent, ReaperTypeOK
<1>5. Rooted'
  BY <1>2 DEF Rooted
<1>6. QED
  BY <1>1, <1>3, <1>4, <1>5

LEMMA WaitReturnsKeeps ==
    ASSUME Family, NEW p \in Procs, WaitReturns(p) PROVE Family'
BY Waited DEF WaitReturns

LEMMA ReapsKeeps ==
    ASSUME Family, NEW p \in Procs, NEW q \in Procs, Reaps(p, q) PROVE Family'
BY Waited DEF Reaps

LEMMA NoChildLeftKeeps ==
    ASSUME Family, NoChildLeft PROVE Family'
<1> USE DEF Family
<1>1. \A q \in Procs : ~Unreaped(q)
  BY NobodyIsLeft DEF NoChildLeft
<1>2. QED
  BY <1>1 DEF NoChildLeft, ReaperTypeOK, EmptyUnlessWaiting, HasParent, Rooted, Unreaped

\* A new process has no children yet, so that it cannot close a circle.
LEMMA ForksKeeps ==
    ASSUME Family, NEW p \in Procs, NEW q \in Procs, Forks(p, q) PROVE Family'
<1> USE DEF Family
<1>0. /\ procStatus[p] = "alive" /\ procStatus[q] = "off"
      /\ procStatus' = [procStatus EXCEPT ![q] = "alive"]
      /\ procParent' = [procParent EXCEPT ![q] = p]
      /\ UNCHANGED <<argv, reaper>>
  BY DEF Forks
<1>1. ReaperTypeOK'
  BY <1>0 DEF ReaperTypeOK
<1>2. \A r \in Procs : Unreaped(r)' => r = q \/ (Unreaped(r) /\ procParent'[r] = procParent[r])
  BY <1>0 DEF ReaperTypeOK, Unreaped
<1>3. procParent'[q] = p /\ p # q
  BY <1>0 DEF ReaperTypeOK
<1>4. reaper = "waiting"
  BY <1>0 DEF EmptyUnlessWaiting, Unreaped
<1>5. EmptyUnlessWaiting'
  BY <1>0, <1>4 DEF EmptyUnlessWaiting
<1>6. HasParent'
  <2> SUFFICES ASSUME NEW r \in Procs, Unreaped(r)'
               PROVE  \/ procParent'[r] = TheReaper
                      \/ procParent'[r] \in Procs /\ procStatus'[procParent'[r]] = "alive"
    BY DEF HasParent
  <2>1. CASE r = q
    BY <2>1, <1>0, <1>3 DEF ReaperTypeOK
  <2>2. CASE r # q
    BY <2>2, <1>0, <1>2 DEF HasParent, ReaperTypeOK
  <2>3. QED
    BY <2>1, <2>2
<1>7. Rooted'
  <2> SUFFICES ASSUME NEW S \in SUBSET Procs, S # {}, \A r \in S : Unreaped(r)'
               PROVE  \E r \in S : procParent'[r] \notin S
    BY DEF Rooted
  <2>1. CASE q \notin S
    BY <2>1, <1>2 DEF Rooted
  <2>2. CASE S = {q}
    BY <2>2, <1>3
  <2>3. CASE q \in S /\ S # {q}
    <3>1. PICK r \in S \ {q} : procParent[r] \notin S \ {q}
      BY <2>3, <1>2 DEF Rooted
    <3>2. procParent[r] # q
      BY <3>1, <1>0, <1>2, ReaperAssumption DEF HasParent, TheReaper
    <3>3. QED
      BY <3>1, <3>2, <1>2
  <2>4. QED
    BY <2>1, <2>2, <2>3
<1>8. QED
  BY <1>1, <1>5, <1>6, <1>7

\* The children of the process that ends become reaper's.
LEMMA ExitsKeeps ==
    ASSUME Family, NEW p \in Procs, Exits(p) PROVE Family'
<1> USE DEF Family
<1>0. /\ procStatus[p] = "alive"
      /\ procStatus' = [procStatus EXCEPT ![p] = "zombie"]
      /\ procParent' = [q \in Procs |-> IF procParent[q] = p THEN TheReaper ELSE procParent[q]]
      /\ UNCHANGED <<argv, reaper>>
  BY DEF Exits, Adopted
<1>1. ReaperTypeOK'
  BY <1>0 DEF ReaperTypeOK
<1>2. \A q \in Procs : Unreaped(q)' => Unreaped(q)
  BY <1>0 DEF ReaperTypeOK, Unreaped
<1>3. \A q \in Procs : procParent'[q] = TheReaper \/ (procParent'[q] = procParent[q] /\ procParent[q] # p)
  BY <1>0
<1>4. EmptyUnlessWaiting'
  BY <1>0, <1>2 DEF EmptyUnlessWaiting
<1>5. HasParent'
  <2> SUFFICES ASSUME NEW q \in Procs, Unreaped(q)', procParent'[q] # TheReaper
               PROVE  procParent'[q] \in Procs /\ procStatus'[procParent'[q]] = "alive"
    BY DEF HasParent
  <2>1. procParent'[q] = procParent[q] /\ procParent[q] # p
    BY <1>3
  <2>2. procParent[q] \in Procs /\ procStatus[procParent[q]] = "alive"
    BY <2>1, <1>2 DEF HasParent
  <2>3. QED
    BY <2>1, <2>2, <1>0 DEF ReaperTypeOK
<1>6. Rooted'
  <2> SUFFICES ASSUME NEW S \in SUBSET Procs, S # {}, \A q \in S : Unreaped(q)'
               PROVE  \E q \in S : procParent'[q] \notin S
    BY DEF Rooted
  <2>1. PICK q \in S : procParent[q] \notin S
    BY <1>2 DEF Rooted
  <2>2. QED
    BY <2>1, <1>3, ReaperAssumption DEF TheReaper
<1>7. QED
  BY <1>1, <1>4, <1>5, <1>6

LEMMA FamilyNext == Family /\ [ReaperNext]_reaperVars => Family'
<1> SUFFICES ASSUME Family, [ReaperNext]_reaperVars PROVE Family'
  OBVIOUS
<1>1. ASSUME NEW p \in Procs, StartReaper(p) PROVE Family'
  BY <1>1, StartReaperKeeps
<1>2. CASE ForkFails
  BY <1>2 DEF ForkFails, Family, ReaperTypeOK, EmptyUnlessWaiting, HasParent, Rooted, Unreaped
<1>3. ASSUME NEW p \in Procs, WaitReturns(p) PROVE Family'
  BY <1>3, WaitReturnsKeeps
<1>4. CASE NoChildLeft
  BY <1>4, NoChildLeftKeeps
<1>5. ASSUME NEW p \in Procs, NEW q \in Procs, Forks(p, q) PROVE Family'
  BY <1>5, ForksKeeps
<1>6. ASSUME NEW p \in Procs, Exits(p) PROVE Family'
  BY <1>6, ExitsKeeps
<1>7. ASSUME NEW p \in Procs, NEW q \in Procs, Reaps(p, q) PROVE Family'
  BY <1>7, ReapsKeeps
<1>8. CASE UNCHANGED reaperVars
  BY <1>8 DEF reaperVars, Family, ReaperTypeOK, EmptyUnlessWaiting, HasParent, Rooted, Unreaped
<1>9. QED
  BY <1>1, <1>2, <1>3, <1>4, <1>5, <1>6, <1>7, <1>8 DEF ReaperNext

-----------------------------------------------------------------------------
(* What follows *)

LEMMA FamilyAlways == ReaperSpec => []Family
<1>1. QED
  BY FamilyInit, FamilyNext, PTL DEF ReaperSpec

\* The types of Reaper's variables.
THEOREM ReaperTypeCorrect == ReaperSpec => []ReaperTypeOK
BY FamilyAlways, PTL DEF Family

\* When reaper has ended, every process that came of the game has ended and been
\* waited for, for any number of processes (utils/reaper/main.cpp:44).
THEOREM EndsAfterTheGame == ReaperSpec => []ReaperOutlivesTheGame
<1>1. Family => ReaperOutlivesTheGame
  BY DEF Family, EmptyUnlessWaiting, Unreaped, ReaperTypeOK, ReaperOutlivesTheGame
<1>2. QED
  BY <1>1, FamilyAlways, PTL

-----------------------------------------------------------------------------
(* Reaper implements GameLife *)

LEMMA LifeInit == ReaperInit => Life!Init
BY DEF ReaperInit, Life!Init, Living

LEMMA LifeNext == Family /\ [ReaperNext]_reaperVars => [Life!Next]_(Life!lifeVars)
<1> SUFFICES ASSUME Family, [ReaperNext]_reaperVars PROVE [Life!Next]_(Life!lifeVars)
  OBVIOUS
<1> USE DEF Family, Life!Next, Life!lifeVars
<1>1. ASSUME NEW p \in Procs, StartReaper(p) PROVE Life!Next
  <2>1. CASE ExecutableAt(argv) = 0
    BY <1>1, <2>1 DEF StartReaper, Living, Life!Fail
  <2>2. CASE ExecutableAt(argv) # 0
    <3>1. /\ reaper = "starting" /\ reaper' = "waiting"
          /\ procStatus' = [procStatus EXCEPT ![p] = "alive"]
      BY <1>1, <2>2 DEF StartReaper
    <3>2. Living' = {p}
      BY <3>1 DEF Living, EmptyUnlessWaiting, Unreaped, ReaperTypeOK
    <3>3. QED
      BY <3>1, <3>2 DEF Life!Start
  <2>3. QED
    BY <2>1, <2>2
<1>2. CASE ForkFails
  BY <1>2 DEF ForkFails, Living, Life!Fail
<1>3. ASSUME NEW z \in Procs, procStatus[z] = "zombie",
             procStatus' = [procStatus EXCEPT ![z] = "gone"], UNCHANGED reaper
      PROVE  UNCHANGED Life!lifeVars
  <2>1. Living' = Living
    BY <1>3 DEF Living, ReaperTypeOK
  <2>2. QED
    BY <1>3, <2>1
<1>4. CASE NoChildLeft
  <2>1. \A q \in Procs : ~Unreaped(q)
    BY <1>4, NobodyIsLeft DEF NoChildLeft
  <2>2. QED
    BY <1>4, <2>1 DEF NoChildLeft, Living, Unreaped, Life!Over
<1>5. ASSUME NEW p \in Procs, NEW q \in Procs, Forks(p, q) PROVE Life!Next
  <2>1. Living' = Living \cup {q} /\ Living # {} /\ UNCHANGED reaper
    BY <1>5 DEF Forks, Living, ReaperTypeOK
  <2>2. QED
    BY <2>1 DEF Life!Spawn
<1>6. ASSUME NEW p \in Procs, Exits(p) PROVE Life!Next
  <2>1. Living' = Living \ {p} /\ UNCHANGED reaper
    BY <1>6 DEF Exits, Living, ReaperTypeOK
  <2>2. QED
    BY <2>1 DEF Life!End
<1>7. CASE UNCHANGED reaperVars
  BY <1>7 DEF reaperVars, Living
<1>8. QED
  BY <1>1, <1>2, <1>3, <1>4, <1>5, <1>6, <1>7 DEF ReaperNext, WaitReturns, Reaps

\* Whatever the processes of a game do, reaper starts it once and ends when, and
\* only when, none of them lives: the safety part of IsAGamesLife.
THEOREM ImplementsGameLife == ReaperSpec => Life!Safety
<1>1. QED
  BY LifeInit, LifeNext, FamilyAlways, PTL DEF ReaperSpec, Life!Safety

-----------------------------------------------------------------------------
(***************************************************************************)
(* Messages. The cursor after each read is the sum of what was read        *)
(* (Cursor): four bytes twice, then a header that may be missing, then all *)
(* the rest.                                                               *)
(***************************************************************************)

Read(piece) == IF piece.read THEN piece.size ELSE 0

Sizes == serialized.header \in 1..MaxHeader /\ serialized.body \in 0..MaxBody

Cursor ==
    /\ reader \in {"idle", "eMsg"} => cursorPos = 0
    /\ reader = "headerSize" => cursorPos = UInt32
    /\ reader \in {"header", "body", "parse", "thrown"} => message.headerSize >= 0
    /\ reader = "header" => cursorPos = 2 * UInt32
    /\ reader = "body" =>
           /\ cursorPos = 2 * UInt32 + Read(header)
           /\ header.size = message.headerSize /\ header.ok = header.read
    /\ reader = "parse" =>
           /\ header.size = message.headerSize /\ header.ok = header.read /\ body.ok = body.read
           /\ body.read => /\ cursorPos = message.length /\ body.size > 0
                           /\ Read(header) + body.size = message.length - 2 * UInt32
    /\ success = "true" => reader = "done"

MessagesInv == MessagesTypeOK /\ Sizes /\ Cursor /\ ReadsJustTheMessage

LEMMA MessagesInitInv == MessagesInit => MessagesInv
<1> SUFFICES ASSUME MessagesInit PROVE MessagesInv
  OBVIOUS
<1>1. MessagesTypeOK
  BY MessagesAssumption DEF MessagesInit, MessagesTypeOK, NoMessage, Unread, Verdict, AnEMsg, Minus1
<1>2. Cursor /\ ReadsJustTheMessage
  BY DEF MessagesInit, Cursor, ReadsJustTheMessage, NoMessage, UInt32
<1>3. Sizes
  BY DEF MessagesInit, Sizes
<1>4. QED
  BY <1>1, <1>2, <1>3 DEF MessagesInv

LEMMA ArrivesKeeps ==
    ASSUME MessagesInv,
           \/ Serialize
           \/ \E length \in 0 .. 2 * UInt32 + MaxHeader + MaxBody, eMsg \in {AnEMsg, Minus1},
                 size \in {Minus1} \cup 0..MaxHeader : AnswersOddly(length, eMsg, size)
    PROVE  MessagesInv'
<1>1. PICK length \in Nat, eMsg \in {AnEMsg, Minus1}, size \in {Minus1} \cup 0..MaxHeader :
        /\ reader = "idle" /\ message' = [length |-> length, eMsg |-> eMsg, headerSize |-> size]
        /\ reader' = "eMsg" /\ UNCHANGED <<serialized, cursorPos, header, body, success>>
  <2>1. CASE Serialize
    <3>1. /\ 2 * UInt32 + serialized.header + serialized.body \in Nat
          /\ serialized.header \in 0..MaxHeader
      BY MessagesAssumption DEF MessagesInv, Sizes, UInt32
    <3>2. QED
      BY <2>1, <3>1 DEF Serialize, Reads
  <2>2. ASSUME NEW length \in 0 .. 2 * UInt32 + MaxHeader + MaxBody,
               NEW eMsg \in {AnEMsg, Minus1}, NEW size \in {Minus1} \cup 0..MaxHeader,
               AnswersOddly(length, eMsg, size)
        PROVE  length \in Nat /\ reader = "idle" /\ reader' = "eMsg"
               /\ message' = [length |-> length, eMsg |-> eMsg, headerSize |-> size]
               /\ UNCHANGED <<serialized, cursorPos, header, body, success>>
    BY <2>2 DEF AnswersOddly, Reads
  <2>3. QED
    BY <2>1, <2>2
<1>2. cursorPos = 0 /\ success # "true"
  BY <1>1 DEF MessagesInv, Cursor
<1>3. message'.length = length /\ message'.eMsg = eMsg /\ message'.headerSize = size
  BY <1>1
<1>4. MessagesTypeOK' /\ Sizes'
  BY <1>1, <1>3 DEF MessagesInv, MessagesTypeOK, Sizes
<1>5. Cursor' /\ ReadsJustTheMessage'
  BY <1>1, <1>2, <1>3 DEF Cursor, ReadsJustTheMessage
<1>6. QED
  BY <1>4, <1>5 DEF MessagesInv

LEMMA SizesReadKeeps == ASSUME MessagesInv, ReadEMsg \/ ReadHeaderSize PROVE MessagesInv'
<1>1. /\ UNCHANGED <<message, serialized, header, body>>
      /\ \/ /\ reader = "eMsg" /\ reader' = "headerSize"
            /\ cursorPos' = cursorPos + UInt32 /\ cursorPos + UInt32 <= message.length
            /\ success' = success
         \/ /\ reader = "headerSize" /\ reader' = "header" /\ message.headerSize # Minus1
            /\ cursorPos' = cursorPos + UInt32 /\ cursorPos + UInt32 <= message.length
            /\ success' = success
         \/ /\ reader \in {"eMsg", "headerSize"}
            /\ reader' = "done" /\ success' = "false"
            /\ \/ cursorPos' = cursorPos
               \/ cursorPos' = cursorPos + UInt32 /\ cursorPos + UInt32 <= message.length
  BY DEF ReadEMsg, ReadHeaderSize, ReadUint32, Reads, CanRead
<1>2. MessagesTypeOK' /\ Sizes'
  BY <1>1 DEF MessagesInv, MessagesTypeOK, Sizes, UInt32, Verdict
<1>3. Cursor'
  BY <1>1 DEF MessagesInv, MessagesTypeOK, Cursor, UInt32, Read
<1>4. ReadsJustTheMessage'
  BY <1>1 DEF MessagesInv, MessagesTypeOK, Cursor, ReadsJustTheMessage, UInt32
<1>5. QED
  BY <1>2, <1>3, <1>4 DEF MessagesInv

LEMMA HeaderReadKeeps == ASSUME MessagesInv, ReadHeader PROVE MessagesInv'
<1> DEFINE n == message.headerSize
<1>1. /\ reader = "header" /\ reader' = "body" /\ header' = ReadLength(n)
      /\ cursorPos' = IF header'.read THEN cursorPos + header'.size ELSE cursorPos
      /\ UNCHANGED <<message, serialized, body, success>>
  BY DEF ReadHeader, Reads
<1>2. n \in Nat /\ cursorPos = 2 * UInt32 /\ message.length \in Nat /\ success # "true"
  BY <1>1 DEF MessagesInv, MessagesTypeOK, Cursor, Minus1
<1>3. /\ header' = [read |-> CanRead(n), ok |-> CanRead(n), size |-> n]
      /\ header'.size = n /\ header'.ok = header'.read
      /\ header'.read => cursorPos + n <= message.length
  BY <1>1, <1>2 DEF ReadLength, CanRead
<1>4. header' \in [read : BOOLEAN, ok : BOOLEAN, size : Nat]
  BY <1>2, <1>3 DEF CanRead
<1>5. cursorPos' = 2 * UInt32 + Read(header)' /\ cursorPos' \in Nat
  BY <1>1, <1>2, <1>3 DEF Read, UInt32
<1>6. cursorPos' <= message.length
  BY <1>1, <1>2, <1>3 DEF MessagesInv, ReadsJustTheMessage
<1>7. MessagesTypeOK' /\ Sizes'
  BY <1>1, <1>4, <1>5 DEF MessagesInv, MessagesTypeOK, Sizes
<1>8. Cursor' /\ ReadsJustTheMessage'
  BY <1>1, <1>2, <1>3, <1>5, <1>6 DEF Cursor, ReadsJustTheMessage
<1>9. QED
  BY <1>7, <1>8 DEF MessagesInv

LEMMA BodyReadKeeps == ASSUME MessagesInv, ReadBody PROVE MessagesInv'
<1> DEFINE n == message.length - cursorPos
<1>1. /\ reader = "body" /\ reader' = "parse" /\ body' = ReadLength(n)
      /\ cursorPos' = IF body'.read THEN cursorPos + body'.size ELSE cursorPos
      /\ UNCHANGED <<message, serialized, header, success>>
  BY DEF ReadBody, Reads
<1>2. /\ cursorPos = 2 * UInt32 + Read(header) /\ cursorPos \in Nat /\ cursorPos <= message.length
      /\ message.length \in Nat /\ n \in Int /\ success # "true"
      /\ header.size = message.headerSize /\ header.ok = header.read /\ message.headerSize >= 0
  BY <1>1 DEF MessagesInv, MessagesTypeOK, Cursor, ReadsJustTheMessage
<1>3. CanRead(n) => n > 0
  BY <1>2 DEF CanRead
<1>4. /\ body' \in [read : BOOLEAN, ok : BOOLEAN, size : Int]
      /\ body'.size = n /\ body'.ok = body'.read
      /\ body'.read => n > 0
  <2>1. CASE CanRead(n)
    BY <1>1, <1>2, <1>3, <2>1 DEF ReadLength
  <2>2. CASE ~CanRead(n)
    BY <1>1, <1>2, <2>2 DEF ReadLength
  <2>3. QED
    BY <2>1, <2>2
<1>5. /\ cursorPos' \in Nat /\ cursorPos' <= message.length
      /\ body'.read => cursorPos' = message.length
                       /\ Read(header) + body'.size = message.length - 2 * UInt32
  <2>1. Read(header) \in Nat
    BY DEF Read, MessagesInv, MessagesTypeOK
  <2>2. QED
    BY <1>1, <1>2, <1>4, <2>1 DEF UInt32
<1>6. MessagesTypeOK' /\ Sizes'
  BY <1>1, <1>4, <1>5 DEF MessagesInv, MessagesTypeOK, Sizes
<1>7. Read(header)' = Read(header)
  BY <1>1 DEF Read
<1>8. Cursor' /\ ReadsJustTheMessage'
  BY <1>1, <1>2, <1>4, <1>5, <1>7 DEF Cursor, ReadsJustTheMessage
<1>9. QED
  BY <1>6, <1>8 DEF MessagesInv

\* A message is found good only when both parts were read.
LEMMA ParseKeeps == ASSUME MessagesInv, HeaderThrows \/ Parse PROVE MessagesInv'
<1>1. /\ reader = "parse" /\ reader' \in {"done", "thrown"}
      /\ UNCHANGED <<message, serialized, cursorPos, header, body>>
      /\ success' \in {success, "uninitialized", "true", "false"}
      /\ success' = "true" => reader' = "done" /\ header.ok /\ body.ok
  <2>1. reader = "parse" /\ success # "true"
    BY DEF HeaderThrows, Parse, Reads, MessagesInv, Cursor
  <2>2. CASE HeaderThrows
    BY <2>1, <2>2 DEF HeaderThrows
  <2>3. CASE Parse
    BY <2>1, <2>3 DEF Parse
  <2>4. QED
    BY <2>2, <2>3
<1>2. /\ message.headerSize >= 0 /\ header.size = message.headerSize
      /\ header.ok = header.read /\ body.ok = body.read
      /\ body.read => /\ cursorPos = message.length /\ body.size > 0
                      /\ Read(header) + body.size = message.length - 2 * UInt32
      /\ cursorPos <= message.length
  BY <1>1 DEF MessagesInv, Cursor, ReadsJustTheMessage
<1>3. MessagesTypeOK' /\ Sizes'
  BY <1>1 DEF MessagesInv, MessagesTypeOK, Sizes, Verdict
<1>4. Cursor'
  BY <1>1, <1>2 DEF Cursor
<1>5. ReadsJustTheMessage'
  BY <1>1, <1>2 DEF ReadsJustTheMessage, Read
<1>6. QED
  BY <1>3, <1>4, <1>5 DEF MessagesInv

LEMMA MessagesNextInv == MessagesInv /\ [MessagesNext]_messagesVars => MessagesInv'
<1> SUFFICES ASSUME MessagesInv, [MessagesNext]_messagesVars PROVE MessagesInv'
  OBVIOUS
<1>1. CASE MessagesNext
  BY <1>1, ArrivesKeeps, SizesReadKeeps, HeaderReadKeeps, BodyReadKeeps, ParseKeeps DEF MessagesNext
<1>2. CASE UNCHANGED messagesVars
  BY <1>2 DEF messagesVars, MessagesInv, MessagesTypeOK, Sizes, Cursor, Read, ReadsJustTheMessage
<1>3. QED
  BY <1>1, <1>2

LEMMA MessagesAlways == MessagesSpec => []MessagesInv
<1>1. QED
  BY MessagesInitInv, MessagesNextInv, PTL DEF MessagesSpec

-----------------------------------------------------------------------------
(* What follows *)

\* The types of Messages' variables.
THEOREM MessagesTypeCorrect == MessagesSpec => []MessagesTypeOK
<1>1. MessagesInv => MessagesTypeOK
  BY DEF MessagesInv
<1>2. QED
  BY <1>1, MessagesAlways, PTL

\* Nothing past a message's end is read, and a message found good was read to the
\* end, whatever its sizes claim (ProtoMsg::FromBinary, BufferHelpers::ReadLength).
THEOREM NothingElseIsRead == MessagesSpec => []ReadsJustTheMessage
<1>1. MessagesInv => ReadsJustTheMessage
  BY DEF MessagesInv
<1>2. QED
  BY <1>1, MessagesAlways, PTL

(***************************************************************************)
(* The parts together. ClientInit and ClientNext only narrow what a part   *)
(* does, so what was proved of each part holds of all of them.             *)
(***************************************************************************)

\* Every part starts as it does alone.
LEMMA PartsStart ==
    ClientInit => /\ LibraryInit /\ DownloadsInit /\ GameListInit /\ GameWindowInit
                  /\ FoldersInit /\ SingleInstanceInit /\ ReaperInit /\ WebTabsInit
                  /\ MessagesInit /\ LaunchInit /\ CompatInit /\ part \in Part
BY Zenon DEF ClientInit

\* A step of all is, to each part, a step of its own or none.
LEMMA PartsStep ==
    [ClientNext]_clientVars =>
        /\ [LibraryNext]_libraryVars
        /\ [DownloadsNext]_downloadsVars
        /\ [GameListNext]_gameListVars
        /\ [GameWindowNext]_gameWindowVars
        /\ [FoldersNext]_foldersVars
        /\ [SingleInstanceNext]_singleInstanceVars
        /\ [ReaperNext]_reaperVars
        /\ [WebTabsNext]_webTabsVars
        /\ [MessagesNext]_messagesVars
        /\ [LaunchNext]_launchVars
        /\ [CompatNext]_compatVars
        /\ part' = part
<1>1. ASSUME ClientNext
      PROVE  /\ [LibraryNext]_libraryVars
             /\ [DownloadsNext]_downloadsVars
             /\ [GameListNext]_gameListVars
             /\ [GameWindowNext]_gameWindowVars
             /\ [FoldersNext]_foldersVars
             /\ [SingleInstanceNext]_singleInstanceVars
             /\ [ReaperNext]_reaperVars
             /\ [WebTabsNext]_webTabsVars
             /\ [MessagesNext]_messagesVars
             /\ [LaunchNext]_launchVars
             /\ [CompatNext]_compatVars
             /\ part' = part
  <2>1. [LibraryNext]_libraryVars
    BY <1>1, Zenon DEF ClientNext
  <2>2. [DownloadsNext]_downloadsVars
    BY <1>1, Zenon DEF ClientNext
  <2>3. [GameListNext]_gameListVars
    BY <1>1, Zenon DEF ClientNext
  <2>4. [GameWindowNext]_gameWindowVars
    BY <1>1, Zenon DEF ClientNext
  <2>5. [FoldersNext]_foldersVars
    BY <1>1, Zenon DEF ClientNext
  <2>6. [SingleInstanceNext]_singleInstanceVars
    BY <1>1, Zenon DEF ClientNext
  <2>7. [ReaperNext]_reaperVars
    BY <1>1, Zenon DEF ClientNext
  <2>8. [WebTabsNext]_webTabsVars
    BY <1>1, Zenon DEF ClientNext
  <2>9. [MessagesNext]_messagesVars
    BY <1>1, Zenon DEF ClientNext
  <2>10. [LaunchNext]_launchVars
    BY <1>1, Zenon DEF ClientNext
  <2>11. [CompatNext]_compatVars
    BY <1>1, Zenon DEF ClientNext
  <2>12. part' = part
    BY <1>1 DEF ClientNext
  <2>13. QED
    BY Zenon, <2>1, <2>2, <2>3, <2>4, <2>5, <2>6, <2>7, <2>8, <2>9, <2>10, <2>11,
       <2>12
<1>2. CASE UNCHANGED clientVars
  BY <1>2, Zenon DEF clientVars
<1>3. QED
  BY <1>1, <1>2, Zenon

\* What is proved of a part alone is proved of it among the others: the client
\* (Application, MainWindow and the processes and servers around them) is every
\* part's own specification.
THEOREM EachAsAlone ==
    ClientSpec => /\ LibrarySpec /\ DownloadsSpec /\ GameListSpec /\ GameWindowSpec
                  /\ FoldersSpec /\ SingleInstanceSpec /\ ReaperSpec /\ WebTabsSpec
                  /\ MessagesSpec /\ LaunchSpec /\ CompatSpec
BY PartsStart, PartsStep, PTL
   DEF ClientSpec, LibrarySpec, DownloadsSpec, GameListSpec, GameWindowSpec, FoldersSpec,
       SingleInstanceSpec, ReaperSpec, WebTabsSpec, MessagesSpec, LaunchSpec, CompatSpec

\* The variables of all parts keep their types, the part that acts is one of
\* them.
THEOREM ClientTypes == ClientSpec => []ClientTypeOK
<1>1. ClientSpec => [](part \in Part)
  <2>1. part \in Part /\ [ClientNext]_clientVars => (part \in Part)'
    BY PartsStep
  <2>2. QED
    BY <2>1, PartsStart, PTL DEF ClientSpec
<1>2. QED
  BY <1>1, EachAsAlone, LibraryTypeCorrect, DownloadsTypes, GameListTypes, GameWindowTypes,
     FoldersTypeCorrect, SingleInstanceTypeCorrect, ReaperTypeCorrect, WebTabsTypeCorrect,
     MessagesTypeCorrect, LaunchTypes, CompatTypes, PTL DEF ClientTypeOK
=============================================================================
