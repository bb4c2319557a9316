--------------------------- MODULE TransportProofs ---------------------------
(***************************************************************************)
(* Proofs about what MCTransport composes: SSH, for any targets, any       *)
(* number of login attempts and of calls, and two attempts at a command;   *)
(* the walk over any Redfish service, with any names among its resources   *)
(* in any circles and any statuses in answer; the Redfish session, for any *)
(* number of sessions and writes; and ipmi_setup, for any BMC and any      *)
(* number of setups.                                                       *)
(***************************************************************************)
EXTENDS MCTransport, SequenceTheorems, TLAPS

-----------------------------------------------------------------------------
(* SSH.                                                                    *)
Conn == [alias : Alias, is : {"fresh", "live", "dead"}]
Silent == {"none", "refused", "pretended"}

SshTypes ==
  /\ sat \in {"idle", "wrapper", "login", "exec", "hung", "judge"}
  /\ registry \in Seq(Conn)
  /\ target \in Alias /\ mode \in Modes /\ ignore_err \in BOOLEAN /\ timed \in BOOLEAN
  /\ why \in {"new", "not_open", "reopened"}
  /\ login_attempt_num \in 0..MaxLogins
  /\ exec_cmd_attempt_num \in 0..2
  /\ rc \in {"unset", "zero", "nonzero"}
  /\ ssh_answer \in {"none", "zero", "nonzero", "raised", "started", "written",
                     "pretended", "refused"}
  /\ ssh_calls \in 0..MaxCommandCalls
  /\ runs \in Nat /\ last \in {"none", "zero", "nonzero"} /\ steady \in BOOLEAN

(* The connections of the target, without the name that find_connection    *)
(* has for the first of them.                                              *)
HasOne == \E i \in DOMAIN registry : registry[i].alias = target
AllAre(s) == \A i \in DOMAIN registry : registry[i].alias = target => registry[i].is = s

(* What holds at each place of execute_ssh_command: a target that has not  *)
(* answered yet has one more attempt than the command was sent, and if it  *)
(* is steady the command was not sent, and the last attempt finds it live. *)
AtIdle    == steady /\ ssh_answer \notin Silent => runs = 1
AtWrapper == runs = 0 /\ last = "none" /\ rc = "unset" /\ ssh_answer = "none"
Looping   == HasOne /\ last = "none" /\ rc # "zero"
AtLogin   == /\ Looping /\ AllAre("fresh") /\ runs <= exec_cmd_attempt_num
             /\ exec_cmd_attempt_num # 0 => rc = "nonzero"
             /\ steady => runs = 0 /\ exec_cmd_attempt_num < 2
AtExec    == /\ Looping /\ exec_cmd_attempt_num # 0 /\ runs < exec_cmd_attempt_num
             /\ steady => runs = 0 /\ (exec_cmd_attempt_num = 2 => AllAre("live"))
AtHung    == Looping /\ runs <= 2 /\ (steady => runs = 1)
AtJudge   == /\ runs <= 2 /\ (steady => runs = 1)
             /\ mode = "execute" => rc # "unset"
             /\ mode = "execute" /\ rc = "zero" => last = "zero"

SPlaced ==
  /\ sat = "idle" => AtIdle
  /\ sat = "wrapper" => AtWrapper
  /\ sat = "login" => AtLogin
  /\ sat = "exec" => AtExec
  /\ sat = "hung" => AtHung
  /\ sat = "judge" => AtJudge

SInv == SshTypes /\ OneConnectionEach /\ SPlaced

-----------------------------------------------------------------------------
LEMMA NoConnections == <<>> \in Seq(Conn) /\ DOMAIN <<>> = {}
  OBVIOUS

(* find_connection finds the connection of a target that has one.          *)
LEMMA FoundIsEntered ==
  ASSUME SInv, HasOne
  PROVE  found \in DOMAIN registry /\ registry[found].alias = target
<1>1. PICK i \in DOMAIN registry : registry[i].alias = target
  BY DEF HasOne
<1>2. Entered(target) = {i}
  BY <1>1 DEF Entered, SInv, OneConnectionEach
<1>3. i \in Nat
  BY <1>1 DEF SInv, SshTypes
<1>4. \E k \in Entered(target) : \A j \in Entered(target) : k <= j
  BY <1>2, <1>3
<1>5. found \in Entered(target)
  BY <1>4 DEF found
<1> QED BY <1>5, <1>2, <1>1

(* A connection that changes keeps its place and its target.               *)
LEMMA BecameKeepsAlias ==
  ASSUME SshTypes, NEW i \in DOMAIN registry, NEW s \in {"fresh", "live", "dead"}
  PROVE  /\ Became(i, s) \in Seq(Conn)
         /\ DOMAIN Became(i, s) = DOMAIN registry
         /\ \A j \in DOMAIN registry : Became(i, s)[j].alias = registry[j].alias
         /\ Became(i, s)[i].is = s
         /\ \A j \in DOMAIN registry \ {i} : Became(i, s)[j] = registry[j]
<1> DEFINE reg == Became(i, s)
<1>1. registry[i] \in Conn /\ i \in 1..Len(registry)
  BY DEF SshTypes
<1>2. reg = [registry EXCEPT ![i] = [registry[i] EXCEPT !.is = s]]
  BY DEF Became
<1>3. [registry[i] EXCEPT !.is = s] \in Conn
  BY <1>1 DEF Conn
<1>4. reg \in Seq(Conn)
  BY <1>1, <1>2, <1>3, ExceptSeq DEF SshTypes
<1>5. DOMAIN reg = DOMAIN registry
  BY <1>2
<1>6. reg[i] = [registry[i] EXCEPT !.is = s]
  BY <1>2
<1>7. reg[i].is = s /\ reg[i].alias = registry[i].alias
  BY <1>1, <1>6 DEF Conn
<1>8. \A j \in DOMAIN registry \ {i} : reg[j] = registry[j]
  BY <1>2
<1> QED BY <1>4, <1>5, <1>7, <1>8

(* open_connection enters one that is not logged in, for a target that has *)
(* none.                                                                   *)
LEMMA OpenedIsFresh ==
  ASSUME SInv, NEW reg \in Seq(Conn),
         \A i \in DOMAIN reg : reg[i].alias # target,
         \A i, j \in DOMAIN reg : reg[i].alias = reg[j].alias => i = j,
         registry' = Opened(reg), target' = target
  PROVE  /\ registry' \in Seq(Conn) /\ OneConnectionEach'
         /\ HasOne' /\ AllAre("fresh")'
<1> DEFINE new == [alias |-> target, is |-> "fresh"]
           n == Len(reg) + 1
<1>1. new \in Conn
  BY DEF SInv, SshTypes, Conn
<1>2. registry' = Append(reg, new)
  BY DEF Opened
<1>3. /\ registry' \in Seq(Conn) /\ DOMAIN registry' = 1..n /\ Len(reg) \in Nat
      /\ DOMAIN reg = 1..Len(reg)
      /\ \A i \in DOMAIN reg : registry'[i] = reg[i]
      /\ registry'[n] = new
  BY <1>1, <1>2, AppendProperties
<1>4. \A i \in DOMAIN registry' : i = n \/ i \in DOMAIN reg
  BY <1>3
<1>5. n \in DOMAIN registry' /\ registry'[n].alias = target /\ registry'[n].is = "fresh"
  BY <1>3
<1>6. \A i \in DOMAIN registry' : registry'[i].alias = target => i = n
  BY <1>3, <1>4
<1>7. OneConnectionEach'
  BY <1>3, <1>4, <1>5, <1>6 DEF OneConnectionEach
<1> QED BY <1>3, <1>5, <1>6, <1>7 DEF HasOne, AllAre

LEMMA SshStarts == SInit => SInv
<1> SUFFICES ASSUME SInit PROVE SInv
  OBVIOUS
<1>0. ignore_err \in BOOLEAN /\ timed \in BOOLEAN /\ steady \in BOOLEAN
  BY Zenon DEF SInit
<1>1. SshTypes
  BY <1>0, SshAssumption, NoConnections DEF SInit, SshTypes, Modes, SshAssumption
<1>2. OneConnectionEach
  BY DEF SInit, OneConnectionEach
<1> QED BY <1>1, <1>2 DEF SInit, SInv, SPlaced, AtIdle, Silent

-----------------------------------------------------------------------------
(* A call, up to the attempt or the login it begins with.                  *)
LEMMA CallStep ==
  ASSUME SInv, \/ \E a \in Alias, m \in Modes, ig, t \in BOOLEAN : execute_command(a, m, ig, t)
               \/ NotValid \/ TestMode \/ SwitchConnection \/ OpenConnection
  PROVE  SInv'
<1> USE SshAssumption DEF SshAssumption, SInv, SshTypes, request, loops, seen, Answers
<1>1. ASSUME NEW a \in Alias, NEW m \in Modes, NEW ig \in BOOLEAN, NEW t \in BOOLEAN,
             execute_command(a, m, ig, t)
      PROVE SInv'
  <2>1. ignore_err' \in BOOLEAN
    BY <1>1, Zenon DEF execute_command
  <2>2. SshTypes'
    BY <1>1, <2>1 DEF execute_command
  <2> QED BY <1>1, <2>2 DEF execute_command, OneConnectionEach, SPlaced, AtWrapper
<1>2. CASE NotValid \/ TestMode
  BY <1>2 DEF NotValid, TestMode, OneConnectionEach, SPlaced, AtIdle, Silent
<1>3. CASE SwitchConnection
  BY <1>3 DEF SwitchConnection, Entered, OneConnectionEach, SPlaced, AtWrapper, AtExec,
              Looping, HasOne
<1>4. CASE OpenConnection
  <2>1. \A i \in DOMAIN registry : registry[i].alias # target
    BY <1>4 DEF OpenConnection, Entered
  <2>2. registry' = Opened(registry) /\ target' = target
    BY <1>4 DEF OpenConnection
  <2>3. registry' \in Seq(Conn) /\ OneConnectionEach' /\ HasOne' /\ AllAre("fresh")'
    BY <2>1, <2>2, OpenedIsFresh DEF OneConnectionEach
  <2>4. AtLogin'
    BY <1>4, <2>3 DEF OpenConnection, SPlaced, AtWrapper, AtLogin, Looping
  <2> QED BY <1>4, <2>3, <2>4 DEF OpenConnection, SPlaced
<1> QED BY <1>1, <1>2, <1>3, <1>4

(* login_ssh.                                                              *)
LEMMA LoginStep == ASSUME SInv, LoggedIn \/ NoSession \/ LoginFails PROVE SInv'
<1> USE SshAssumption DEF SshAssumption, SInv, SshTypes, request, loops, seen, Answers
<1>1. CASE LoggedIn
  <2>1. AtLogin /\ found \in DOMAIN registry
    BY <1>1, FoundIsEntered DEF LoggedIn, SPlaced, AtLogin, Looping
  <2>2. registry' = Became(found, "live")
    BY <1>1 DEF LoggedIn
  <2> DEFINE f == found
  <2>3. f \in DOMAIN registry /\ registry[f].alias = target
    BY <2>1, FoundIsEntered DEF AtLogin, Looping
  <2>4. /\ registry' \in Seq(Conn) /\ DOMAIN registry' = DOMAIN registry
        /\ \A j \in DOMAIN registry : registry'[j].alias = registry[j].alias
        /\ registry'[f].is = "live"
    BY <2>2, <2>3, BecameKeepsAlias
  <2> HIDE DEF f
  <2>5. OneConnectionEach'
    BY <2>4 DEF OneConnectionEach
  <2>6. target' = target /\ HasOne' /\ AllAre("live")'
    BY <1>1, <2>3, <2>4 DEF LoggedIn, HasOne, AllAre, OneConnectionEach
  <2>7. CASE AttemptsLeft
    <3>1. sat' = "exec" /\ exec_cmd_attempt_num' = exec_cmd_attempt_num + 1
      BY <1>1, <2>7 DEF LoggedIn, Continue
    <3>2. AtExec'
      BY <1>1, <2>1, <2>6, <2>7, <3>1 DEF LoggedIn, AtLogin, AtExec, Looping, AttemptsLeft
    <3> QED BY <1>1, <2>4, <2>5, <2>7, <3>1, <3>2 DEF LoggedIn, SPlaced, AttemptsLeft
  <2>8. CASE ~AttemptsLeft
    <3>1. sat' = "judge" /\ exec_cmd_attempt_num' = exec_cmd_attempt_num
      BY <1>1, <2>8 DEF LoggedIn, Continue
    <3>2. AtJudge'
      BY <1>1, <2>1, <2>8, <3>1 DEF LoggedIn, AtLogin, AtJudge, Looping, AttemptsLeft
    <3> QED BY <1>1, <2>4, <2>5, <3>1, <3>2 DEF LoggedIn, SPlaced
  <2> QED BY <2>7, <2>8
<1>2. CASE NoSession
  BY <1>2 DEF NoSession, OneConnectionEach, SPlaced, AtLogin, Looping, HasOne, AllAre
<1>3. CASE LoginFails
  <2>1. SshTypes'
    <3>1. /\ sat' \in {"idle", "judge"} /\ rc' \in {rc, "nonzero"}
          /\ ssh_answer' \in {ssh_answer, "raised"} /\ steady' = FALSE
      BY <1>3 DEF LoginFails
    <3>2. UNCHANGED <<registry, target, mode, ignore_err, timed, why, login_attempt_num,
                      exec_cmd_attempt_num, ssh_calls, runs, last>>
      BY <1>3 DEF LoginFails
    <3>3. registry' \in Seq(Conn)
      BY <3>2
    <3>4. /\ target' \in Alias /\ mode' \in Modes /\ ignore_err' \in BOOLEAN /\ timed' \in BOOLEAN
          /\ why' \in {"new", "not_open", "reopened"}
      BY <3>2
    <3>5. /\ login_attempt_num' \in 0..MaxLogins /\ exec_cmd_attempt_num' \in 0..2
          /\ ssh_calls' \in 0..MaxCommandCalls /\ runs' \in Nat
      BY <3>2
    <3> QED BY <3>1, <3>2, <3>3, <3>4, <3>5
  <2>3. OneConnectionEach'
    BY <1>3 DEF LoginFails, OneConnectionEach
  <2>2. runs <= 2
    BY <1>3 DEF LoginFails, SPlaced, AtLogin
  <2> QED BY <1>3, <2>1, <2>2, <2>3 DEF LoginFails, SPlaced, AtIdle, AtJudge
<1> QED BY <1>1, <1>2, <1>3

(* One attempt at the command, and what becomes of the call after it.      *)
LEMMA ExecStep ==
  ASSUME SInv, \/ \E r \in {"zero", "nonzero"} : CommandRuns(r)
               \/ CommandHangs \/ TimedOut \/ NotOpen \/ SessionLost \/ OtherFailure \/ Judge
  PROVE  SInv'
<1> USE SshAssumption DEF SshAssumption, SInv, SshTypes, request, loops, seen, Answers
<1>0. ASSUME sat = "exec"
      PROVE  AtExec /\ found \in DOMAIN registry /\ registry[found].alias = target
  BY <1>0, FoundIsEntered DEF SPlaced, AtExec, Looping
<1>1. ASSUME NEW r \in {"zero", "nonzero"}, CommandRuns(r) PROVE SInv'
  <2>1. AtExec
    BY <1>1, <1>0 DEF CommandRuns
  <2>2. rc' \in {"unset", "zero", "nonzero"} /\ (mode = "execute" => rc' = r)
    BY <1>1 DEF CommandRuns
  <2>3. SshTypes'
    BY <1>1, <2>2 DEF CommandRuns
  <2>4. AtJudge'
    BY <1>1, <2>1, <2>2 DEF CommandRuns, AtExec, AtJudge
  <2> QED BY <1>1, <2>3, <2>4 DEF CommandRuns, OneConnectionEach, SPlaced
<1>2. CASE CommandHangs
  <2>1. AtExec
    BY <1>2, <1>0 DEF CommandHangs
  <2>2. AtHung'
    BY <1>2, <2>1 DEF CommandHangs, AtExec, AtHung, Looping, HasOne
  <2> QED BY <1>2, <2>2 DEF CommandHangs, OneConnectionEach, SPlaced
<1>3. CASE TimedOut
  BY <1>3, NoConnections DEF TimedOut, OneConnectionEach, SPlaced, AtHung, AtIdle
<1>4. CASE NotOpen
  <2>1. AtExec /\ found \in DOMAIN registry /\ registry[found].alias = target
        /\ registry[found].is = "fresh"
    BY <1>4, <1>0 DEF NotOpen
  <2> DEFINE f == found
  <2>2. f \in DOMAIN registry /\ registry[f].alias = target /\ registry[f].is = "fresh"
    BY <2>1
  <2> HIDE DEF f
  <2>3. AllAre("fresh") /\ ~AllAre("live")
    BY <2>2 DEF AllAre, OneConnectionEach
  <2>4. AtLogin'
    BY <1>4, <2>1, <2>3 DEF NotOpen, AtExec, AtLogin, Looping, HasOne, AllAre
  <2> QED BY <1>4, <2>4 DEF NotOpen, OneConnectionEach, SPlaced
<1>5. CASE SessionLost
  <2>1. AtExec /\ found \in DOMAIN registry /\ registry[found].alias = target
    BY <1>5, <1>0 DEF SessionLost
  <2>2. registry' = Opened(<<>>) /\ target' = target
    BY <1>5 DEF SessionLost
  <2>3. registry' \in Seq(Conn) /\ OneConnectionEach' /\ HasOne' /\ AllAre("fresh")'
    BY <2>2, NoConnections, OpenedIsFresh
  <2>4. /\ runs' \in Nat /\ steady' \in BOOLEAN /\ runs' <= exec_cmd_attempt_num
        /\ steady' => runs' = 0 /\ exec_cmd_attempt_num < 2
    <3>1. PICK b \in BOOLEAN : Interrupted(b)
      BY <1>5 DEF SessionLost
    <3>2. CASE registry[found].is = "live"
      <4>0. steady' \in BOOLEAN /\ ~steady'
        BY <3>1, <3>2, Zenon DEF Interrupted
      <4>1. runs' = runs \/ runs' = runs + 1
        BY <3>1, <3>2 DEF Interrupted
      <4> QED BY <2>1, <4>0, <4>1 DEF AtExec
    <3>3. CASE registry[found].is # "live"
      <4>1. ~AllAre("live")
        BY <2>1, <3>3 DEF AllAre
      <4>2. steady' = steady /\ runs' = runs
        BY <3>1, <3>3 DEF Interrupted
      <4> QED BY <2>1, <4>1, <4>2 DEF AtExec
    <3> QED BY <3>2, <3>3
  <2>5. AtLogin'
    BY <1>5, <2>1, <2>3, <2>4 DEF SessionLost, AtExec, AtLogin, Looping
  <2> QED BY <1>5, <2>3, <2>4, <2>5 DEF SessionLost, SPlaced
<1>6. CASE OtherFailure
  <2>1. runs' \in Nat
    <3>1. runs' = runs \/ runs' = runs + 1
      BY <1>6 DEF OtherFailure
    <3> QED BY <3>1
  <2> QED BY <1>6, <2>1, NoConnections DEF OtherFailure, OneConnectionEach, SPlaced, AtIdle
<1>7. CASE Judge
  <2>1. AtJudge
    BY <1>7 DEF Judge, SPlaced
  <2>2. ssh_answer' \in {"zero", "nonzero", "raised", "started", "written"} /\ sat' = "idle"
    <3>1. CASE mode = "start"
      BY <1>7, <3>1 DEF Judge
    <3>2. CASE mode # "start" /\ rc # "zero" /\ ~ignore_err
      BY <1>7, <3>2 DEF Judge
    <3>3. CASE mode = "write" /\ ~(rc # "zero" /\ ~ignore_err)
      BY <1>7, <3>3 DEF Judge
    <3>4. CASE mode = "execute" /\ ~(rc # "zero" /\ ~ignore_err)
      BY <1>7, <2>1, <3>4 DEF Judge, AtJudge
    <3> QED BY <3>1, <3>2, <3>3, <3>4 DEF Modes
  <2> QED BY <1>7, <2>1, <2>2 DEF Judge, OneConnectionEach, SPlaced, AtIdle, AtJudge
<1> QED BY <1>1, <1>2, <1>3, <1>4, <1>5, <1>6, <1>7
LEMMA DropStep == ASSUME SInv, SessionDrops PROVE SInv'
<1> USE DEF SInv, SshTypes, request, loops, seen
<1>1. PICK i \in DOMAIN registry :
        /\ registry[i].is = "live" /\ registry' = Became(i, "dead")
        /\ steady' = (steady /\ (sat = "idle" \/ registry[i].alias # target))
  BY DEF SessionDrops
<1>2. /\ registry' \in Seq(Conn) /\ DOMAIN registry' = DOMAIN registry
      /\ \A j \in DOMAIN registry : registry'[j].alias = registry[j].alias
      /\ \A j \in DOMAIN registry \ {i} : registry'[j] = registry[j]
  BY <1>1, BecameKeepsAlias
<1>3. OneConnectionEach'
  BY <1>2 DEF OneConnectionEach
<1>4. steady' \in BOOLEAN
  BY <1>1, Zenon
<1>5. SshTypes'
  BY <1>2, <1>4 DEF SessionDrops
<1>6. HasOne => HasOne'
  BY <1>2 DEF SessionDrops, HasOne
<1>7. AllAre("fresh") => AllAre("fresh")'
  BY <1>1, <1>2 DEF SessionDrops, AllAre
<1>8. steady' => steady /\ (sat # "idle" => registry[i].alias # target)
  BY <1>1
<1>9. sat # "idle" /\ steady' /\ AllAre("live") => AllAre("live")'
  BY <1>2, <1>8 DEF SessionDrops, AllAre
<1>10. SPlaced'
  <2>1. CASE sat \in {"idle", "wrapper", "hung", "judge"}
    BY <2>1, <1>6, <1>8 DEF SessionDrops, SPlaced, AtIdle, AtWrapper, AtHung, AtJudge, Looping
  <2>2. CASE sat = "login"
    BY <2>2, <1>6, <1>7, <1>8 DEF SessionDrops, SPlaced, AtLogin, Looping
  <2>3. CASE sat = "exec"
    BY <2>3, <1>6, <1>8, <1>9 DEF SessionDrops, SPlaced, AtExec, Looping
  <2> QED BY <2>1, <2>2, <2>3
<1> QED BY <1>3, <1>5, <1>10

LEMMA SshStays == SInv /\ [SNext]_sshvars => SInv'
<1> SUFFICES ASSUME SInv, [SNext]_sshvars PROVE SInv'
  OBVIOUS
<1>1. CASE UNCHANGED sshvars
  BY <1>1 DEF sshvars, request, loops, seen, SInv, SshTypes, OneConnectionEach, SPlaced, AtIdle,
              AtWrapper, AtLogin, AtExec, AtHung, AtJudge, Looping, HasOne, AllAre
<1> QED BY <1>1, CallStep, LoginStep, ExecStep, DropStep DEF SNext, SshStep

LEMMA SshInvariant == SSpec => []SInv
BY SshStarts, SshStays, PTL DEF SSpec

(* The types of execute_ssh_command and login_ssh, with what they rely on: *)
(* a command has a connection, and a login one that is not logged in.      *)
THEOREM SshTypeCorrect == SSpec => []SshTypeOK
<1>1. SInv => SshTypeOK
  <2> SUFFICES ASSUME SInv PROVE SshTypeOK
    OBVIOUS
  <2>1. SshTypes
    BY DEF SInv
  <2>2. sat \in {"login", "exec", "hung"} => HasOne
    BY DEF SInv, SPlaced, AtLogin, AtExec, AtHung, Looping
  <2>3. HasOne => Entered(target) # {}
    BY DEF HasOne, Entered
  <2>4. sat = "login" => registry[found].is = "fresh"
    BY <2>2, FoundIsEntered DEF SInv, SPlaced, AtLogin, AllAre
  <2> QED BY <2>1, <2>2, <2>3, <2>4, SshAssumption DEF SshTypeOK, SshTypes, Conn, SshAssumption
<1> QED BY <1>1, SshInvariant, PTL

(* find_connection never has two connections of a target to choose from.   *)
THEOREM OneConnectionForEach == SSpec => []OneConnectionEach
<1>1. SInv => OneConnectionEach
  BY DEF SInv
<1> QED BY <1>1, SshInvariant, PTL

(* A call during which its target answers sends its command exactly once,  *)
(* whatever state earlier calls and reboots have left the connections in.  *)
THEOREM SteadyTargetGetsItOnce == SSpec => []SteadyRunsOnce
<1>1. SInv => SteadyRunsOnce
  BY DEF SInv, SPlaced, AtIdle, Silent, SteadyRunsOnce
<1> QED BY <1>1, SshInvariant, PTL

(* Every step of execute_ssh_command is one of RemoteCall, or none.        *)
LEMMA RemoteStep == SInv /\ SInv' /\ [SNext]_sshvars => [Remote!Next]_Remote!rvars
<1> SUFFICES ASSUME SInv, [SNext]_sshvars PROVE [Remote!Next]_Remote!rvars
  OBVIOUS
<1> USE DEF Remote!Next, Remote!rvars, request, loops, seen, Answers
<1>0. runs \in Nat
  BY DEF SInv, SshTypes
<1>1. ASSUME NEW a \in Alias, NEW m \in Modes, NEW ig \in BOOLEAN, NEW t \in BOOLEAN,
             execute_command(a, m, ig, t)
      PROVE Remote!Call
  BY <1>1 DEF execute_command, Remote!Call
<1>2. CASE NotValid
  <2>1. Remote!Answer("refused")
    BY <1>2 DEF NotValid, Remote!Answer, SInv, SPlaced, AtWrapper
  <2> QED BY <2>1
<1>3. CASE TestMode
  <2>1. Remote!Answer("pretended")
    BY <1>3 DEF TestMode, Remote!Answer, SInv, SPlaced, AtWrapper
  <2> QED BY <2>1
<1>4. CASE SwitchConnection \/ OpenConnection \/ NoSession \/ NotOpen
  BY <1>4 DEF SwitchConnection, OpenConnection, NoSession, NotOpen
<1>5. CASE LoggedIn
  BY <1>5 DEF LoggedIn, Continue
<1>6. CASE LoginFails
  <2>1. CASE why = "reopened"
    <3>1. Remote!Answer("raised")
      BY <1>6, <2>1 DEF LoginFails, Remote!Answer
    <3> QED BY <3>1
  <2>2. CASE why # "reopened"
    BY <1>6, <2>2 DEF LoginFails
  <2> QED BY <2>1, <2>2
<1>7. ASSUME NEW r \in {"zero", "nonzero"}, CommandRuns(r) PROVE Remote!Send
  BY <1>7 DEF CommandRuns, Remote!Send, SInv, SshTypes, SPlaced, AtExec, Looping
<1>8. CASE CommandHangs
  <2>1. Remote!Send
    BY <1>8 DEF CommandHangs, Remote!Send, SInv, SshTypes, SPlaced, AtExec, Looping
  <2> QED BY <2>1
<1>9. CASE TimedOut
  <2>1. Remote!Answer("raised")
    BY <1>9 DEF TimedOut, Remote!Answer
  <2> QED BY <2>1
<1>10. CASE SessionLost
  <2>1. AtExec /\ exec_cmd_attempt_num \in 0..2
    BY <1>10 DEF SessionLost, SInv, SPlaced, SshTypes
  <2>2. PICK b \in BOOLEAN : Interrupted(b)
    BY <1>10 DEF SessionLost
  <2>3. CASE runs' = runs
    BY <1>10, <2>3 DEF SessionLost
  <2>4. CASE runs' = runs + 1
    <3>1. Remote!Send
      BY <1>0, <1>10, <2>1, <2>4 DEF SessionLost, Remote!Send, AtExec, Looping
    <3> QED BY <3>1
  <2>5. runs' = runs \/ runs' = runs + 1
    BY <1>0, <2>2 DEF Interrupted
  <2> QED BY <2>3, <2>4, <2>5
<1>11. CASE OtherFailure
  <2>1. AtExec /\ exec_cmd_attempt_num \in 0..2
    BY <1>11 DEF OtherFailure, SInv, SPlaced, SshTypes
  <2>2. CASE runs' = runs
    <3>1. Remote!Answer("raised")
      BY <1>11, <2>2 DEF OtherFailure, Remote!Answer
    <3> QED BY <3>1
  <2>3. CASE runs' = runs + 1
    <3>1. Remote!Abandon
      BY <1>0, <1>11, <2>1, <2>3 DEF OtherFailure, Remote!Abandon, AtExec
    <3> QED BY <3>1
  <2>4. runs' = runs \/ runs' = runs + 1
    BY <1>0, <1>11 DEF OtherFailure
  <2> QED BY <2>2, <2>3, <2>4
<1>12. CASE Judge
  <2>1. AtJudge /\ rc \in {"unset", "zero", "nonzero"} /\ mode \in Modes
    BY <1>12 DEF Judge, SInv, SPlaced, SshTypes
  <2>2. CASE mode = "start"
    <3>1. Remote!Answer("started")
      BY <1>12, <2>2 DEF Judge, Remote!Answer
    <3> QED BY <3>1
  <2>3. CASE mode # "start" /\ rc # "zero" /\ ~ignore_err
    <3>1. Remote!Answer("raised")
      BY <1>12, <2>3 DEF Judge, Remote!Answer
    <3> QED BY <3>1
  <2>4. CASE mode = "write" /\ ~(rc # "zero" /\ ~ignore_err)
    <3>1. Remote!Answer("written")
      BY <1>12, <2>4 DEF Judge, Remote!Answer
    <3> QED BY <3>1
  <2>5. CASE mode = "execute" /\ ~(rc # "zero" /\ ~ignore_err)
    <3>1. Remote!Answer(rc) /\ rc \in {"zero", "nonzero"}
      BY <1>12, <2>1, <2>5 DEF Judge, Remote!Answer, AtJudge
    <3> QED BY <3>1
  <2> QED BY <2>1, <2>2, <2>3, <2>4, <2>5 DEF Modes
<1>13. CASE SessionDrops
  BY <1>13 DEF SessionDrops
<1>14. CASE UNCHANGED sshvars
  BY <1>14 DEF sshvars
<1> QED BY <1>1, <1>2, <1>3, <1>4, <1>5, <1>6, <1>7, <1>8, <1>9, <1>10, <1>11, <1>12, <1>13, <1>14
        DEF SNext, SshStep

(* execute_ssh_command implements RemoteCall: for any targets, reboots and *)
(* failures, a command is sent at most twice in a call, and a zero status  *)
(* is that of the command as it was sent last.                             *)
THEOREM RemoteCallKept == SSpec => KeepsRemoteCall
<1>1. SInit => Remote!Init
  BY DEF SInit, Remote!Init
<1> QED BY <1>1, RemoteStep, SshInvariant, PTL DEF SSpec, KeepsRemoteCall, Remote!RemoteSpec

(* However often targets reboot and connections are closed, each target has *)
(* at most one connection and a steady one gets its command exactly once.  *)
THEOREM ConnectionsAlwaysServe == SSpec => []ConnectionsServe
<1>1. SshTypeOK /\ OneConnectionEach /\ SteadyRunsOnce => ConnectionsServe
  BY DEF ConnectionsServe
<1> QED BY <1>1, SshTypeCorrect, OneConnectionForEach, SteadyTargetGetsItOnce, PTL

-----------------------------------------------------------------------------
(* The walk over a Redfish service.                                        *)
(* What is enumerated, or was taken off this round, is settled; nothing    *)
(* else was requested; and what was read has put its names into pending.   *)
Looked == enumerated \cup (round \ to_do)

EInv ==
  /\ EnumTypeOK
  /\ round \cap enumerated = {} /\ start \in pending
  /\ round = {} => pending \subseteq enumerated /\ ~raised
  /\ \A p \in Path : gets[p] <= 1 /\ (gets[p] > 0 => p \in Looked /\ p.of \notin LeftOut)
  /\ \A p \in dead : gets[p] > 0
  /\ ~raised => \A p \in Looked : Settled(p)
  /\ ~raised => \A p \in Path : gets[p] > 0 /\ p \notin dead =>
                                  Named(p.of, rstrip(p)) \subseteq pending
  /\ \A p \in result : /\ ~p.slash /\ body[p.of].id = p.of
                       /\ \E q \in Path : rstrip(q) = p /\ gets[q] > 0 /\ q \notin dead

-----------------------------------------------------------------------------
LEMMA NamesArePaths ==
  ASSUME EnumTypeOK, NEW p \in Path
  PROVE  /\ Named(p.of, rstrip(p)) \subseteq Path
         /\ rstrip(p) \in Path /\ ~rstrip(p).slash /\ rstrip(p).of = p.of
<1>1. p.of \in Resource /\ rstrip(p) = [of |-> p.of, slash |-> FALSE]
  <2>1. p \in [of : Resource, slash : BOOLEAN]
    BY DEF Path
  <2>2. p.of \in Resource
    BY <2>1
  <2> DEFINE q == [p EXCEPT !.slash = FALSE]
  <2>3. q \in [of : Resource, slash : BOOLEAN]
    BY <2>1
  <2>4. q.of = p.of /\ q.slash = FALSE
    BY <2>1
  <2>5. q = [of |-> q.of, slash |-> q.slash]
    <3> HIDE DEF q
    <3> QED BY <2>3
  <2>6. rstrip(p) = q
    BY DEF rstrip
  <2> HIDE DEF q
  <2> QED BY <2>2, <2>4, <2>5, <2>6
<1>2. body[p.of].members \subseteq Path /\ body[p.of].nested \subseteq Resource
      /\ body[p.of].id \in Resource
  BY <1>1 DEF EnumTypeOK, Bodies
<1>3. \A r \in Resource : plain(r) \in Path
  BY DEF plain, Path
<1>4. rstrip(p) \in Path /\ ~rstrip(p).slash /\ rstrip(p).of = p.of
  BY <1>1 DEF Path
<1> QED BY <1>2, <1>3, <1>4 DEF Named

LEMMA EnumStarts == EInit => EInv
<1> SUFFICES ASSUME EInit PROVE EInv
  OBVIOUS
<1>1. raised \in BOOLEAN /\ ~raised
  BY Zenon DEF EInit
<1>2. EnumTypeOK
  BY <1>1, ServiceAssumption DEF EInit, EnumTypeOK, ServiceAssumption
<1> QED BY <1>1, <1>2 DEF EInit, EInv, Looked

(* Every request is for a path that was not requested before; it takes the *)
(* path off the round.                                                     *)
LEMMA RequestIsNew ==
  ASSUME EInv, NEW p \in Path, Request(p), UNCHANGED <<service, round, enumerated>>
  PROVE  /\ gets[p] = 0 /\ gets' \in [Path -> Nat] /\ gets'[p] = 1
         /\ \A q \in Path \ {p} : gets'[q] = gets[q]
         /\ Looked' = Looked \cup {p} /\ to_do' \subseteq round'
         /\ \A q \in Path : gets'[q] <= 1 /\ (gets'[q] > 0 => q \in Looked' /\ q.of \notin LeftOut)
<1>1. p \in to_do /\ p.of \notin LeftOut /\ ~raised /\ gets' = [gets EXCEPT ![p] = @ + 1]
  BY DEF Request
<1>2. p \in round /\ p \notin Looked
  BY <1>1 DEF EInv, EnumTypeOK, Looked
<1>3. gets[p] = 0
  BY <1>2 DEF EInv, EnumTypeOK
<1>4. gets' \in [Path -> Nat] /\ gets'[p] = 1 /\ \A q \in Path \ {p} : gets'[q] = gets[q]
  BY <1>1, <1>3 DEF EInv, EnumTypeOK
<1>5. Looked' = Looked \cup {p} /\ to_do' \subseteq round'
  BY <1>1, <1>2 DEF Request, Looked, EInv, EnumTypeOK
<1>6. \A q \in Path : gets'[q] <= 1 /\ (gets'[q] > 0 => q \in Looked' /\ q.of \notin LeftOut)
  BY <1>1, <1>4, <1>5 DEF EInv
<1> QED BY <1>3, <1>4, <1>5, <1>6

(* A path that is settled stays so.                                        *)
LEMMA SettledStays ==
  ASSUME EInv, NEW q \in Path, Settled(q),
         dead \subseteq dead', result \subseteq result',
         gets' \in [Path -> Nat], gets'[q] >= gets[q], UNCHANGED body
  PROVE  Settled(q)'
<1>1. gets[q] > 0 => gets'[q] > 0
  BY DEF EInv, EnumTypeOK
<1> QED BY <1>1 DEF Settled, EInv, EnumTypeOK, rstrip

-----------------------------------------------------------------------------
LEMMA GetStep == ASSUME EInv, NEW p \in Path, Get(p) PROVE EInv'
<1>0. Request(p) /\ UNCHANGED <<service, round, enumerated, dead, raised>> /\ ~raised
      /\ p \in to_do
  BY DEF Get, Request
<1>1. /\ gets[p] = 0 /\ gets' \in [Path -> Nat] /\ gets'[p] = 1
      /\ \A q \in Path \ {p} : gets'[q] = gets[q]
      /\ Looked' = Looked \cup {p} /\ to_do' \subseteq round'
      /\ \A q \in Path : gets'[q] <= 1 /\ (gets'[q] > 0 => q \in Looked' /\ q.of \notin LeftOut)
  BY <1>0, RequestIsNew
<1> DEFINE r == rstrip(p)
<1>2. Named(p.of, r) \subseteq Path /\ r \in Path /\ ~r.slash /\ r.of = p.of
  BY NamesArePaths DEF EInv
<1>3. pending' = pending \cup Named(p.of, r)
      /\ result' = IF body[p.of].id = p.of THEN result \cup {r} ELSE result
  BY DEF Get
<1>4. body' = body /\ start' = start /\ round' = round /\ enumerated' = enumerated
      /\ dead' = dead /\ raised' = raised
  BY <1>0 DEF service
<1>5. \A q \in Path : Named(q.of, rstrip(q))' = Named(q.of, rstrip(q))
  BY <1>4 DEF Named
<1>6. rstrip(p) = r
  OBVIOUS
<1> HIDE DEF r
<1>7. EnumTypeOK' /\ (round \cap enumerated = {} /\ start \in pending)'
  BY <1>0, <1>1, <1>2, <1>3, <1>4 DEF EInv, EnumTypeOK
<1>8. (round = {} => pending \subseteq enumerated /\ ~raised)'
  BY <1>0, <1>4 DEF EInv, EnumTypeOK
<1>9. \A q \in Looked' : Settled(q)'
  <2>1. ASSUME NEW q \in Looked PROVE Settled(q)'
    <3>1. q \in Path /\ Settled(q)
      BY <1>0, <2>1 DEF EInv, EnumTypeOK, Looked
    <3>2. gets'[q] >= gets[q]
      BY <1>1, <3>1 DEF EInv, EnumTypeOK
    <3> QED BY <1>1, <1>3, <1>4, <3>1, <3>2, SettledStays
  <2>2. Settled(p)'
    <3>1. CASE body[p.of].id = p.of
      <4>1. r \in result'
        BY <1>3, <3>1
      <4> QED BY <1>6, <4>1 DEF Settled, rstrip
    <3>2. CASE body[p.of].id # p.of
      BY <1>1, <1>4, <3>2 DEF Settled
    <3> QED BY <3>1, <3>2
  <2> QED BY <1>1, <2>1, <2>2
<1>10. \A q \in Path : gets'[q] > 0 /\ q \notin dead' => Named(q.of, rstrip(q))' \subseteq pending'
  <2>1. ASSUME NEW q \in Path, gets'[q] > 0, q \notin dead'
        PROVE Named(q.of, rstrip(q)) \subseteq pending'
    <3>1. CASE q = p
      BY <1>3, <1>6, <3>1
    <3>2. CASE q # p
      BY <1>0, <1>1, <1>3, <1>4, <2>1, <3>2 DEF EInv
    <3> QED BY <3>1, <3>2
  <2> QED BY <1>5, <2>1
<1>11. \A x \in result' :
         /\ ~x.slash /\ body'[x.of].id = x.of
         /\ \E q \in Path : rstrip(q) = x /\ gets'[q] > 0 /\ q \notin dead'
  <2>1. ASSUME NEW x \in result
        PROVE  /\ ~x.slash /\ body[x.of].id = x.of
               /\ \E q \in Path : rstrip(q) = x /\ gets'[q] > 0 /\ q \notin dead
    <3>1. PICK q \in Path : rstrip(q) = x /\ gets[q] > 0 /\ q \notin dead
      BY DEF EInv
    <3>2. gets'[q] > 0
      BY <1>1, <3>1
    <3> QED BY <3>1, <3>2 DEF EInv
  <2>2. ASSUME body[p.of].id = p.of
        PROVE  /\ ~r.slash /\ body[r.of].id = r.of
               /\ \E q \in Path : rstrip(q) = r /\ gets'[q] > 0 /\ q \notin dead
    <3>1. p \notin dead
      BY <1>1 DEF EInv
    <3> QED BY <1>1, <1>2, <1>6, <2>2, <3>1
  <2> QED BY <1>3, <1>4, <2>1, <2>2
<1>12. \A q \in dead' : gets'[q] > 0
  BY <1>1, <1>4 DEF EInv, EnumTypeOK
<1> QED BY <1>1, <1>4, <1>7, <1>8, <1>9, <1>10, <1>11, <1>12 DEF EInv
LEMMA GetDeadStep == ASSUME EInv, NEW p \in Path, GetDead(p) PROVE EInv'
<1>0. Request(p) /\ UNCHANGED <<service, round, pending, enumerated, result, raised>> /\ ~raised
      /\ p \in to_do /\ dead' = dead \cup {p}
  BY DEF GetDead, Request
<1>1. /\ gets[p] = 0 /\ gets' \in [Path -> Nat] /\ gets'[p] = 1
      /\ \A q \in Path \ {p} : gets'[q] = gets[q]
      /\ Looked' = Looked \cup {p} /\ to_do' \subseteq round'
      /\ \A q \in Path : gets'[q] <= 1 /\ (gets'[q] > 0 => q \in Looked' /\ q.of \notin LeftOut)
  BY <1>0, RequestIsNew
<1>2. body' = body /\ start' = start
  BY <1>0 DEF service
<1>3. EnumTypeOK' /\ (round \cap enumerated = {} /\ start \in pending)'
  BY <1>0, <1>1, <1>2 DEF EInv, EnumTypeOK
<1>4. (round = {} => pending \subseteq enumerated /\ ~raised)'
  BY <1>0 DEF EInv, EnumTypeOK
<1>5. \A q \in Looked' : Settled(q)'
  <2>1. ASSUME NEW q \in Looked PROVE Settled(q)'
    <3>1. q \in Path /\ Settled(q)
      BY <1>0, <2>1 DEF EInv, EnumTypeOK, Looked
    <3>2. gets'[q] >= gets[q]
      BY <1>1, <3>1 DEF EInv, EnumTypeOK
    <3> QED BY <1>0, <1>1, <1>2, <3>1, <3>2, SettledStays
  <2>2. Settled(p)'
    BY <1>0 DEF Settled
  <2> QED BY <1>1, <2>1, <2>2
<1>6. \A q \in Path : gets'[q] > 0 /\ q \notin dead' =>
        gets[q] > 0 /\ q \notin dead /\ Named(q.of, rstrip(q))' \subseteq pending'
  BY <1>0, <1>1, <1>2 DEF EInv, Named
<1>7. \A x \in result' :
        /\ ~x.slash /\ body'[x.of].id = x.of
        /\ \E q \in Path : rstrip(q) = x /\ gets'[q] > 0 /\ q \notin dead'
  <2> SUFFICES ASSUME NEW x \in result
               PROVE  /\ ~x.slash /\ body[x.of].id = x.of
                      /\ \E q \in Path : rstrip(q) = x /\ gets'[q] > 0 /\ q \notin dead'
    BY <1>0, <1>2
  <2>1. PICK q \in Path : rstrip(q) = x /\ gets[q] > 0 /\ q \notin dead
    BY DEF EInv
  <2>2. q # p /\ gets'[q] > 0 /\ q \notin dead'
    BY <1>0, <1>1, <2>1
  <2> QED BY <2>1, <2>2 DEF EInv
<1>8. \A q \in dead' : gets'[q] > 0
  BY <1>0, <1>1 DEF EInv, EnumTypeOK
<1> QED BY <1>0, <1>1, <1>2, <1>3, <1>4, <1>5, <1>6, <1>7, <1>8 DEF EInv

LEMMA GetRaisesStep == ASSUME EInv, NEW p \in Path, GetRaises(p) PROVE EInv'
<1>0. Request(p) /\ UNCHANGED <<service, round, pending, enumerated, result, dead>>
      /\ p \in to_do
  BY DEF GetRaises, Request
<1>1. /\ gets[p] = 0 /\ gets' \in [Path -> Nat] /\ gets'[p] = 1
      /\ \A q \in Path \ {p} : gets'[q] = gets[q]
      /\ Looked' = Looked \cup {p} /\ to_do' \subseteq round'
      /\ \A q \in Path : gets'[q] <= 1 /\ (gets'[q] > 0 => q \in Looked' /\ q.of \notin LeftOut)
  BY <1>0, RequestIsNew
<1>2. raised' /\ raised' \in BOOLEAN
  BY Zenon DEF GetRaises
<1>3. body' = body /\ start' = start /\ round' # {}
  BY <1>0 DEF service, EInv, EnumTypeOK
<1>4. EnumTypeOK' /\ (round \cap enumerated = {} /\ start \in pending)'
  BY <1>0, <1>1, <1>2, <1>3 DEF EInv, EnumTypeOK
<1>5. \A x \in result' :
        /\ ~x.slash /\ body'[x.of].id = x.of
        /\ \E q \in Path : rstrip(q) = x /\ gets'[q] > 0 /\ q \notin dead'
  <2> SUFFICES ASSUME NEW x \in result
               PROVE  /\ ~x.slash /\ body[x.of].id = x.of
                      /\ \E q \in Path : rstrip(q) = x /\ gets'[q] > 0 /\ q \notin dead
    BY <1>0, <1>3
  <2>1. PICK q \in Path : rstrip(q) = x /\ gets[q] > 0 /\ q \notin dead
    BY DEF EInv
  <2>2. gets'[q] > 0
    BY <1>1, <2>1
  <2> QED BY <2>1, <2>2 DEF EInv
<1>6. \A q \in dead' : gets'[q] > 0
  BY <1>0, <1>1 DEF EInv, EnumTypeOK
<1> QED BY <1>1, <1>2, <1>3, <1>4, <1>5, <1>6 DEF EInv

LEMMA SkipStep == ASSUME EInv, NEW p \in Path, Skip(p) PROVE EInv'
<1>1. /\ p \in to_do /\ p.of \in LeftOut /\ to_do' = to_do \ {p}
      /\ body' = body /\ start' = start
      /\ UNCHANGED <<round, pending, enumerated, result, dead, raised, gets>>
  BY DEF Skip, service
<1>2. EnumTypeOK' /\ Looked' = Looked \cup {p}
  BY <1>1 DEF EInv, EnumTypeOK, Looked
<1>3. \A q \in Path : Settled(q)' <=> Settled(q)
  BY <1>1 DEF Settled
<1>4. Settled(p)
  BY <1>1 DEF Settled
<1>5. Looked \subseteq Path
  BY DEF EInv, EnumTypeOK, Looked
<1>6. (~raised => \A q \in Looked : Settled(q))'
  BY <1>1, <1>2, <1>3, <1>4, <1>5 DEF EInv
<1>7. \A q \in Path : Named(q.of, rstrip(q))' = Named(q.of, rstrip(q))
  BY <1>1 DEF Named
<1> QED BY <1>1, <1>2, <1>6, <1>7 DEF EInv

LEMMA RoundStep == ASSUME EInv, NextRound PROVE EInv'
<1>1. /\ to_do = {} /\ ~raised /\ enumerated' = enumerated \cup round
      /\ round' = pending \ enumerated' /\ to_do' = round'
      /\ body' = body /\ start' = start
      /\ UNCHANGED <<pending, result, dead, raised, gets>>
  BY DEF NextRound, service
<1>2. EnumTypeOK' /\ Looked' = Looked
  BY <1>1 DEF EInv, EnumTypeOK, Looked
<1>3. \A q \in Path : Settled(q)' <=> Settled(q)
  BY <1>1 DEF Settled
<1>4. Looked \subseteq Path
  BY DEF EInv, EnumTypeOK, Looked
<1>5. (~raised => \A q \in Looked : Settled(q))'
  BY <1>1, <1>2, <1>3, <1>4 DEF EInv
<1>6. \A q \in Path : Named(q.of, rstrip(q))' = Named(q.of, rstrip(q))
  BY <1>1 DEF Named
<1> QED BY <1>1, <1>2, <1>5, <1>6 DEF EInv

LEMMA EnumInvariant == ESpec => []EInv
<1>1. EInv /\ UNCHANGED evars => EInv'
  BY DEF EInv, EnumTypeOK, Looked, Settled, Named, evars, service
<1>2. EInv /\ ENext => EInv'
  BY GetStep, GetDeadStep, GetRaisesStep, SkipStep, RoundStep DEF ENext
<1> QED BY <1>1, <1>2, EnumStarts, PTL DEF ESpec

-----------------------------------------------------------------------------
(* The types of enumerate_request, for every service.                      *)
THEOREM EnumTypeCorrect == ESpec => []EnumTypeOK
<1>1. EInv => EnumTypeOK
  BY DEF EInv
<1> QED BY <1>1, EnumInvariant, PTL

(* In circles of any length, no path is requested twice.                   *)
THEOREM EachPathIsReadOnce == ESpec => []EachPathOnce
<1>1. EInv => EachPathOnce
  BY DEF EInv, EachPathOnce
<1> QED BY <1>1, EnumInvariant, PTL

(* What the result holds was read, and by the name it has there.           *)
THEOREM ResultWasRead == ESpec => []ResultIsRead
<1>1. EInv => ResultIsRead
  <2> SUFFICES ASSUME EInv PROVE ResultIsRead
    OBVIOUS
  <2>1. \A p \in Path : p.of \in LeftOut => gets[p] = 0
    BY DEF EInv, EnumTypeOK
  <2> QED BY <2>1 DEF EInv, ResultIsRead
<1> QED BY <1>1, EnumInvariant, PTL

(* When the enumeration returns, every name that it has read is accounted  *)
(* for.                                                                    *)
THEOREM NothingIsMissed == ESpec => []NothingMissed
<1>1. EInv => NothingMissed
  <2> SUFFICES ASSUME EInv, done PROVE NothingMissed
    BY DEF NothingMissed
  <2>1. ~raised /\ \A q \in pending : Settled(q)
    BY DEF EInv, EnumTypeOK, Looked, done
  <2>2. \A p \in Path : gets[p] > 0 /\ p \notin dead => Named(p.of, rstrip(p)) \subseteq pending
    BY <2>1 DEF EInv
  <2> QED BY <2>1, <2>2 DEF EInv, NothingMissed
<1> QED BY <1>1, EnumInvariant, PTL

(* enumerate_request is exact on every service, however large and cyclic.  *)
THEOREM EnumerationExact == ESpec => []EnumerationIsExact
<1>1. EnumTypeOK /\ EachPathOnce /\ ResultIsRead /\ NothingMissed => EnumerationIsExact
  BY DEF EnumerationIsExact
<1> QED BY <1>1, EnumTypeCorrect, EachPathIsReadOnce, ResultWasRead, NothingIsMissed, PTL

-----------------------------------------------------------------------------
(* The shorter walks: when the enumeration is done and nothing was dead,   *)
(* what a resource names is settled, if the resource was read or settled   *)
(* itself under any spelling.                                              *)
Read(r) == \E q \in Path : q.of = r /\ gets[q] > 0

LEMMA SettledIsRead ==
  ASSUME EInv, dead = {}, NEW p \in Path, Settled(p), p.of \notin LeftOut
  PROVE  Read(p.of)
<1>1. CASE rstrip(p) \in result
  <2>1. PICK q \in Path : rstrip(q) = rstrip(p) /\ gets[q] > 0
    BY <1>1 DEF EInv
  <2>2. q.of = p.of
    BY <2>1, NamesArePaths DEF EInv
  <2> QED BY <2>1, <2>2 DEF Read
<1> QED BY <1>1 DEF Settled, Read

LEMMA NamesAreSettled ==
  ASSUME EInv, done, dead = {}, NEW r \in Resource, Read(r), NEW p \in AllNamed(r)
  PROVE  p \in Path /\ \E q \in Path : q.of = p.of /\ Settled(q)
<1>1. PICK q \in Path : q.of = r /\ gets[q] > 0
  BY DEF Read
<1>2. ~raised /\ \A x \in pending : Settled(x)
  BY DEF EInv, EnumTypeOK, Looked, done
<1>3. Named(r, rstrip(q)) \subseteq pending /\ pending \subseteq Path
  BY <1>1, <1>2 DEF EInv, EnumTypeOK
<1>4. rstrip(q).of = r /\ rstrip(q) \in Path
  BY <1>1, NamesArePaths DEF EInv
<1>5. Settled(q)
  <2>1. q \in Looked
    BY <1>1 DEF EInv
  <2> QED BY <1>2, <2>1 DEF EInv
<1>6. p \in Named(r, rstrip(q)) \/ p = rstrip(q)
  BY DEF AllNamed, Named
<1> QED BY <1>1, <1>2, <1>3, <1>4, <1>5, <1>6

LEMMA ListingIsSettled ==
  ASSUME EInv, done, dead = {}, NEW r \in Resource,
         r \in Resource \ LeftOut => Read(r),
         NEW p \in list_request(r, Resource \ LeftOut)
  PROVE  p \in Path /\ \E q \in Path : q.of = p.of /\ Settled(q)
<1>1. r \in Resource \ LeftOut
  BY DEF list_request
<1>2. CASE p \in AllNamed(r)
  BY <1>1, <1>2, NamesAreSettled
<1>3. ASSUME NEW n \in AllNamed(r), n.of \in Resource \ LeftOut, p \in AllNamed(n.of)
      PROVE  p \in Path /\ \E q \in Path : q.of = p.of /\ Settled(q)
  <2>1. PICK q \in Path : q.of = n.of /\ Settled(q)
    BY <1>1, <1>3, NamesAreSettled
  <2>2. Read(n.of)
    BY <1>3, <2>1, SettledIsRead
  <2> QED BY <1>3, <2>2, NamesAreSettled
<1>4. \/ p \in AllNamed(r)
      \/ \E n \in AllNamed(r) : n.of \in Resource \ LeftOut /\ p \in AllNamed(n.of)
  BY <1>1 DEF list_request
<1> QED BY <1>2, <1>3, <1>4

(* A listing, and the search for the members that have an attribute, see   *)
(* nothing that an enumeration with nothing dead would not have found.     *)
THEOREM ListingsAreEnumerated == ESpec => []ListingIsEnumerated
<1>1. ASSUME EInv, done, dead = {}, start.of \notin LeftOut
      PROVE  /\ \A few \in SUBSET Resource :
                  get_members_list(start.of, few)
                    \subseteq get_endpoint_path_list(start.of, Resource \ LeftOut, few)
             /\ \A p \in list_request(start.of, Resource \ LeftOut) :
                  \E q \in Path : q.of = p.of /\ Settled(q)
             /\ \A p \in get_members_uri(start.of, Resource \ LeftOut, Resource) :
                  \E q \in Path : q.of = p.of /\ gets[q] > 0
  <2>1. start \in Path /\ start.of \in Resource
    BY <1>1 DEF EInv, EnumTypeOK, Path
  <2>2. Read(start.of)
    <3>1. Settled(start)
      BY <1>1 DEF EInv, EnumTypeOK, Looked, done
    <3> QED BY <1>1, <2>1, <3>1, SettledIsRead
  <2>3. body[start.of].members \subseteq AllNamed(start.of)
    BY DEF AllNamed
  <2>4. AllNamed(start.of) \subseteq list_request(start.of, Resource \ LeftOut)
    BY <1>1, <2>1 DEF list_request
  <2>5. \A few \in SUBSET Resource :
          get_members_list(start.of, few)
            \subseteq get_endpoint_path_list(start.of, Resource \ LeftOut, few)
    BY <2>3, <2>4 DEF get_members_list, get_member_list, get_endpoint_path_list
  <2>6. \A p \in list_request(start.of, Resource \ LeftOut) :
          \E q \in Path : q.of = p.of /\ Settled(q)
    BY <1>1, <2>1, <2>2, ListingIsSettled
  <2>7. ASSUME NEW p \in get_members_uri(start.of, Resource \ LeftOut, Resource)
        PROVE  \E q \in Path : q.of = p.of /\ gets[q] > 0
    <3>1. PICK m \in body[start.of].members : p \in list_request(m.of, Resource \ LeftOut)
      BY <2>7 DEF get_members_uri, get_member_list
    <3>2. p.of \notin LeftOut
      BY <2>7 DEF get_members_uri
    <3>3. PICK x \in Path : x.of = m.of /\ Settled(x)
      BY <1>1, <2>1, <2>2, <2>3, <3>1, NamesAreSettled
    <3>4. m.of \in Resource
      BY <3>3 DEF Path
    <3>5. m.of \notin LeftOut => Read(m.of)
      BY <1>1, <3>3, SettledIsRead
    <3>6. PICK y \in Path : y.of = p.of /\ Settled(y)
      BY <1>1, <3>1, <3>4, <3>5, ListingIsSettled
    <3> QED BY <1>1, <3>2, <3>6, SettledIsRead DEF Read
  <2> QED BY <2>5, <2>6, <2>7
<1>2. EInv => ListingIsEnumerated
  BY <1>1 DEF ListingIsEnumerated
<1> QED BY <1>2, EnumInvariant, PTL

-----------------------------------------------------------------------------
(* The Redfish session.  Between requests, and while a patch is under way, *)
(* a login that worked has left a session that the BMC knows; the path     *)
(* belongs to the key at all times; the Etag of a patch is that of the     *)
(* version the patch has read.  A client that is not there yet has not     *)
(* logged in.                                                              *)
Resting == rat \in {"idle", "patch"}

RSInv ==
  /\ Resting /\ login_answer \in {"path", "retried"} /\ ~expired => key \in sessions
  /\ rat = "new" => login_answer = "none"
  /\ path # 0 => path = key
  /\ etag # 0 => etag = base
  /\ overwritten = 0

LEMMA LoginIs == login =>
  /\ rat = "idle" /\ UNCHANGED <<key, path, sessions, etag, base, overwritten>>
  /\ \/ login_answer' \in {"mtls", "raised"} /\ rat' = rat
     \/ rat' = "login"
<1>1. login => rat = "idle" /\ UNCHANGED <<key, path, sessions, etag, base, overwritten>>
  BY DEF login, bmc, patching
<1>2. login => (login_answer' \in {"mtls", "raised"} /\ rat' = rat) \/ rat' = "login"
  <2>1. CASE mtls
    BY <2>1, Zenon DEF login
  <2>2. CASE ~mtls /\ ~inited
    BY <2>2, Zenon DEF login
  <2>3. CASE ~mtls /\ inited
    BY <2>3, Zenon DEF login
  <2> QED BY <2>1, <2>2, <2>3
<1> QED BY <1>1, <1>2

LEMMA AlwaysRSInv == RSSpec => []RSInv
<1>1. RSInit => RSInv
  BY DEF RSInit, RSInv
<1>2. RSInv /\ [RSNext]_rsvars => RSInv'
  <2> SUFFICES ASSUME RSInv, [RSNext]_rsvars PROVE RSInv'
    OBVIOUS
  <2> USE DEF RSInv, Resting
  <2>1. CASE Construct
    BY <2>1 DEF Construct, bmc, patching
  <2>2. CASE login
    BY <2>2, LoginIs
  <2>3. CASE LoginMade
    BY <2>3 DEF LoginMade, MakeSession, patching
  <2>4. CASE LoginGarbled
    BY <2>4 DEF LoginGarbled, MakeSession, client, patching
  <2>5. CASE RetryMade
    BY <2>5 DEF RetryMade, MakeSession, patching
  <2>6. CASE RetryFails \/ LoginSwallowed \/ LoginRaises
    BY <2>6 DEF RetryFails, LoginSwallowed, LoginRaises, bmc, patching
  <2>7. CASE logout
    BY <2>7 DEF logout, patching
  <2>8. ASSUME NEW codes, get(codes) PROVE RSInv'
    BY <2>8 DEF get, bmc, patching
  <2>9. CASE PatchMtls
    BY <2>9 DEF PatchMtls, bmc, patching
  <2>10. CASE PatchGets
    BY <2>10 DEF PatchGets, client, bmc
  <2>11. CASE PatchSends
    BY <2>11 DEF PatchSends, Unchanged
  <2>12. CASE Expire
    <3>1. PICK s \in sessions : sessions' = sessions \ {s} /\ expired' = (expired \/ s = key)
      BY <2>12 DEF Expire
    <3>2. ~expired' => ~expired /\ s # key
      BY <3>1, Zenon
    <3> QED BY <2>12, <3>1, <3>2 DEF Expire, client, patching
  <2>13. CASE OtherWrites
    BY <2>13 DEF OtherWrites, client, patching
  <2>14. CASE UNCHANGED rsvars
    BY <2>14 DEF rsvars, client, bmc, patching
  <2> QED BY <2>1, <2>2, <2>3, <2>4, <2>5, <2>6, <2>7, <2>8, <2>9, <2>10, <2>11, <2>12,
             <2>13, <2>14 DEF RSNext
<1> QED BY <1>1, <1>2, PTL DEF RSSpec

(* After a login that returned normally the session in use works until the *)
(* BMC drops it, the path belongs to it, and no patch with an Etag has     *)
(* overwritten what somebody else wrote.                                   *)
THEOREM SessionWorks == RSSpec => [](LoginWorks /\ PathIsInUse /\ NoLostUpdate)
<1>1. RSInv => LoginWorks /\ PathIsInUse /\ NoLostUpdate
  BY DEF RSInv, Resting, LoginWorks, PathIsInUse, NoLostUpdate
<1> QED BY <1>1, AlwaysRSInv, PTL

-----------------------------------------------------------------------------
(* ipmi_setup.  The two lists of required options there are, and how one   *)
(* becomes the other.                                                      *)
NoUser == <<"I", "C", "N", "p", "P", "H">>

LEMMA IndexOf ==
  /\ ipmi_required_options = Required => index("U") = 5
  /\ ipmi_required_options = NoUser => index("P") = 5
<1>1. ASSUME ipmi_required_options = Required PROVE index("U") = 5
  <2>1. DOMAIN Required = 1..7 /\ \A i \in 1..7 : Required[i] = "U" <=> i = 5
    BY DEF Required
  <2>2. \A i \in DOMAIN ipmi_required_options :
          (/\ ipmi_required_options[i] = "U"
           /\ \A j \in 1..(i - 1) : ipmi_required_options[j] # "U") <=> i = 5
    BY <1>1, <2>1
  <2>3. 5 \in DOMAIN ipmi_required_options
    BY <1>1, <2>1
  <2> QED BY <2>2, <2>3, Zenon DEF index
<1>2. ASSUME ipmi_required_options = NoUser PROVE index("P") = 5
  <2>1. DOMAIN NoUser = 1..6 /\ \A i \in 1..6 : NoUser[i] = "P" <=> i = 5
    BY DEF NoUser
  <2>2. \A i \in DOMAIN ipmi_required_options :
          (/\ ipmi_required_options[i] = "P"
           /\ \A j \in 1..(i - 1) : ipmi_required_options[j] # "P") <=> i = 5
    BY <1>2, <2>1
  <2>3. 5 \in DOMAIN ipmi_required_options
    BY <1>2, <2>1
  <2> QED BY <2>2, <2>3, Zenon DEF index
<1> QED BY <1>1, <1>2

LEMMA HasUser ==
  /\ "U" \in ToSet(Required) /\ "U" \notin ToSet(NoUser)
  /\ ipmi_required_options = Required => GivesUser
  /\ ipmi_required_options = NoUser => ~GivesUser
<1>1. "U" \in ToSet(Required)
  <2>1. 5 \in DOMAIN Required /\ Required[5] = "U"
    BY DEF Required
  <2> QED BY <2>1, Zenon DEF ToSet
<1>2. "U" \notin ToSet(NoUser)
  <2>1. \A i \in DOMAIN NoUser : NoUser[i] # "U"
    BY DEF NoUser
  <2> QED BY <2>1, Zenon DEF ToSet
<1>3. GivesUser <=> "U" \in ToSet(ipmi_required_options)
  BY DEF GivesUser, ext_options
<1> QED BY <1>1, <1>2, <1>3

(* A sequence is what is cut from another, or joined from two, if it has   *)
(* the length and the elements.                                            *)
LEMMA CutIs ==
  ASSUME NEW S, NEW s, NEW t \in Seq(S), NEW m \in Int, NEW n \in Int, m <= n,
         \A i \in m..n : s[i] \in S,
         Len(t) = n - m + 1, \A i \in 1..(n - m + 1) : t[i] = s[m + i - 1]
  PROVE  SubSeq(s, m, n) = t
<1>1. /\ SubSeq(s, m, n) \in Seq(S) /\ Len(SubSeq(s, m, n)) = n - m + 1
      /\ \A i \in 1..(n - m + 1) : SubSeq(s, m, n)[i] = s[m + i - 1]
  BY SubSeqProperties
<1> DEFINE u == SubSeq(s, m, n)
<1> HIDE DEF u
<1>2. u \in Seq(S) /\ Len(u) = Len(t) /\ \A i \in 1..Len(u) : u[i] = t[i]
  BY <1>1 DEF u
<1>3. u = t
  BY <1>2, SeqEqual
<1> QED BY <1>3 DEF u

LEMMA JoinIs ==
  ASSUME NEW S, NEW a \in Seq(S), NEW b \in Seq(S), NEW t \in Seq(S),
         Len(t) = Len(a) + Len(b), \A i \in 1..Len(a) : t[i] = a[i],
         \A i \in 1..Len(b) : t[Len(a) + i] = b[i]
  PROVE  a \o b = t
<1>1. /\ a \o b \in Seq(S) /\ Len(a \o b) = Len(a) + Len(b)
      /\ \A i \in 1..(Len(a) + Len(b)) :
           (a \o b)[i] = IF i <= Len(a) THEN a[i] ELSE b[i - Len(a)]
  BY ConcatProperties
<1>2. Len(a) \in Nat /\ Len(b) \in Nat
  BY LenProperties
<1> DEFINE u == a \o b
<1> HIDE DEF u
<1>3. ASSUME NEW i \in 1..Len(t) PROVE u[i] = t[i]
  <2>1. CASE i <= Len(a)
    BY <1>1, <1>2, <2>1 DEF u
  <2>2. CASE ~(i <= Len(a))
    <3>1. i - Len(a) \in 1..Len(b) /\ Len(a) + (i - Len(a)) = i /\ i \in 1..(Len(a) + Len(b))
      BY <1>2, <2>2
    <3>2. u[i] = b[i - Len(a)]
      BY <1>1, <2>2, <3>1 DEF u
    <3>3. t[i] = b[i - Len(a)]
      BY <3>1
    <3> QED BY <3>2, <3>3
  <2> QED BY <2>1, <2>2
<1>4. u \in Seq(S) /\ Len(u) = Len(t)
  BY <1>1 DEF u
<1>5. u = t
  BY <1>3, <1>4, SeqEqual
<1> QED BY <1>5 DEF u

LEMMA RemovesAndInserts ==
  /\ RemoveAt(Required, 5) = NoUser
  /\ InsertAt(NoUser, 5, "U") = Required
<1> DEFINE A == <<"I", "C", "N", "p">>
           B == <<"P", "H">>
           AU == <<"I", "C", "N", "p", "U">>
           S == {"I", "C", "N", "p", "U", "P", "H"}
<1>1. /\ A \in Seq(S) /\ B \in Seq(S) /\ AU \in Seq(S) /\ <<"U">> \in Seq(S)
      /\ Required \in Seq(S) /\ NoUser \in Seq(S)
  <2>1. A \in Seq(S)
    OBVIOUS
  <2>2. B \in Seq(S) /\ <<"U">> \in Seq(S)
    OBVIOUS
  <2>3. AU \in Seq(S)
    OBVIOUS
  <2>4. Required \in Seq(S)
    BY DEF Required
  <2>5. NoUser \in Seq(S)
    BY DEF NoUser
  <2> QED BY <2>1, <2>2, <2>3, <2>4, <2>5
<1>2. /\ Len(A) = 4 /\ Len(B) = 2 /\ Len(AU) = 5 /\ Len(<<"U">>) = 1
      /\ Len(Required) = 7 /\ Len(NoUser) = 6
  BY DEF Required, NoUser
<1>3. /\ \A i \in 1..4 : A[i] = Required[i] /\ A[i] = NoUser[i] /\ A[i] = AU[i]
      /\ B[1] = Required[6] /\ B[2] = Required[7] /\ B[1] = NoUser[5] /\ B[2] = NoUser[6]
      /\ AU[5] = Required[5] /\ <<"U">>[1] = AU[5]
  BY DEF Required, NoUser
<1>10. B[1] = Required[6] /\ B[2] = Required[7]
  BY DEF Required
<1>4. /\ \A i \in 1..7 : Required[i] \in S
      /\ \A i \in 1..6 : NoUser[i] \in S
  BY <1>1, <1>2, ElementOfSeq
<1> HIDE DEF A, B, AU, S
<1>5. SubSeq(Required, 1, 4) = A /\ SubSeq(NoUser, 1, 4) = A
  BY <1>1, <1>2, <1>3, <1>4, CutIs
<1>6. SubSeq(Required, 6, 7) = B /\ SubSeq(NoUser, 5, 6) = B
  <2>1. \A i \in 1..(7 - 6 + 1) : B[i] = Required[6 + i - 1]
    BY <1>10
  <2>2. \A i \in 1..(6 - 5 + 1) : B[i] = NoUser[5 + i - 1]
    BY <1>3
  <2>3. (\A i \in 6..7 : Required[i] \in S) /\ (\A i \in 5..6 : NoUser[i] \in S)
    BY <1>4
  <2>4. SubSeq(Required, 6, 7) = B
    BY <1>1, <1>2, <2>1, <2>3, CutIs
  <2>5. SubSeq(NoUser, 5, 6) = B
    BY <1>1, <1>2, <2>2, <2>3, CutIs
  <2> QED BY <2>4, <2>5
<1>7. A \o B = NoUser
  <2>1. /\ \A i \in 1..Len(A) : NoUser[i] = A[i]
        /\ \A i \in 1..Len(B) : NoUser[Len(A) + i] = B[i]
        /\ Len(NoUser) = Len(A) + Len(B)
    BY <1>2, <1>3
  <2> QED BY <1>1, <2>1, JoinIs
<1>8. A \o <<"U">> = AU
  <2>1. /\ \A i \in 1..Len(A) : AU[i] = A[i]
        /\ \A i \in 1..Len(<<"U">>) : AU[Len(A) + i] = <<"U">>[i]
        /\ Len(AU) = Len(A) + Len(<<"U">>)
    BY <1>2, <1>3
  <2> QED BY <1>1, <2>1, JoinIs
<1>9. AU \o B = Required
  <2>1. /\ \A i \in 1..Len(AU) : Required[i] = AU[i]
        /\ \A i \in 1..Len(B) : Required[Len(AU) + i] = B[i]
        /\ Len(Required) = Len(AU) + Len(B)
    <3>1. \A i \in 1..5 : Required[i] = AU[i]
      BY <1>3
    <3>2. Required[5 + 1] = B[1] /\ Required[5 + 2] = B[2]
      BY <1>10
    <3> QED BY <1>2, <3>1, <3>2
  <2> QED BY <1>1, <2>1, JoinIs
<1>11. RemoveAt(Required, 5) = SubSeq(Required, 1, 4) \o SubSeq(Required, 6, 7)
  BY <1>2 DEF RemoveAt
<1>12. InsertAt(NoUser, 5, "U") = SubSeq(NoUser, 1, 4) \o <<"U">> \o SubSeq(NoUser, 5, 6)
  BY <1>2 DEF InsertAt
<1> QED BY <1>5, <1>6, <1>7, <1>8, <1>9, <1>11, <1>12, Zenon

(* What a probe asks the BMC with each of the two lists.                   *)
Pair(u, c) == [u |-> u, c |-> c]

LEMMA ProbeIs ==
  /\ ipmi_required_options = Required => \A c : [u |-> GivesUser, c |-> c] = Pair(TRUE, c)
  /\ ipmi_required_options = NoUser => \A c : [u |-> GivesUser, c |-> c] = Pair(FALSE, c)
<1>1. ASSUME ipmi_required_options = Required
      PROVE  \A c : [u |-> GivesUser, c |-> c] = Pair(TRUE, c)
  <2>1. GivesUser = TRUE
    <3>1. GivesUser
      BY <1>1, HasUser
    <3>2. GivesUser \in BOOLEAN
      BY SMT DEF GivesUser
    <3> QED BY <3>1, <3>2, Zenon
  <2> QED BY <2>1, Zenon DEF Pair
<1>2. ASSUME ipmi_required_options = NoUser
      PROVE  \A c : [u |-> GivesUser, c |-> c] = Pair(FALSE, c)
  <2>1. GivesUser = FALSE
    <3>1. ~GivesUser
      BY <1>2, HasUser
    <3>2. GivesUser \in BOOLEAN
      BY SMT DEF GivesUser
    <3> QED BY <3>1, <3>2, Zenon
  <2> QED BY <2>1, Zenon DEF Pair
<1> QED BY <1>1, <1>2

(* The list is one of the two, and U is out of it only when the BMC has    *)
(* worked without it, or is being tried.                                   *)
ListIsKnown ==
  /\ iat \in {"idle", "cipher", "cipher3", "boot", "boot_efi", "user", "no_user"}
  /\ ipmi_required_options \in {Required, NoUser}
  /\ iat = "no_user" => ipmi_required_options = NoUser
  /\ ipmi_required_options = NoUser /\ iat # "no_user" => \E c : Pair(FALSE, c) \in accepts

(* What the first setup has found out so far, if no answer was lost: the   *)
(* cipher suite works with -U, or none of the two it tries does.           *)
NeitherWorks == Pair(TRUE, "17") \notin accepts /\ Pair(TRUE, "3") \notin accepts

CipherIsChosen ==
  \/ ipmi_cipher_suite \in {"17", "3"} /\ Pair(TRUE, ipmi_cipher_suite) \in accepts
  \/ ipmi_cipher_suite = DefaultCipher /\ NeitherWorks

FirstSetup ==
  /\ setups \in Nat
  /\ setups = 0 => iat = "idle" /\ ipmi_required_options = Required /\ ipmi_cipher_suite = DefaultCipher
  /\ setups = 1 /\ ~unsteady =>
       /\ iat # "idle" /\ iat # "no_user" => ipmi_required_options = Required
       /\ iat \in {"cipher", "cipher3", "no_user"} => ipmi_cipher_suite = DefaultCipher
       /\ iat = "cipher3" => Pair(TRUE, "17") \notin accepts
       /\ iat \in {"boot", "boot_efi", "user"} => CipherIsChosen
       /\ iat = "no_user" => NeitherWorks
       /\ iat = "idle" =>
            \/ [u |-> GivesUser, c |-> ipmi_cipher_suite] \in accepts
            \/ NeitherWorks /\ Pair(FALSE, DefaultCipher) \notin accepts

IpmiInv == ListIsKnown /\ FirstSetup

(* The two outcomes of a probe.                                            *)
LEMMA ProbeEnds ==
  ASSUME NEW c
  PROVE  /\ Works(c) => [u |-> GivesUser, c |-> c] \in accepts /\ unsteady' = unsteady
         /\ Fails(c) /\ ~unsteady' =>
              [u |-> GivesUser, c |-> c] \notin accepts /\ unsteady' = unsteady
<1>1. Lost => unsteady'
  BY Zenon DEF Lost
<1> QED BY <1>1 DEF Works, Fails, Refused

LEMMA AlwaysIpmiInv == ISpec => []IpmiInv
<1>1. IInit => IpmiInv
  <2>1. Required # NoUser
    BY HasUser
  <2>2. IInit => /\ iat = "idle" /\ ipmi_required_options = Required
                 /\ ipmi_cipher_suite = DefaultCipher /\ setups = 0
    BY DEF IInit
  <2>3. IInit => setups \in Nat /\ setups # 1
    BY <2>2
  <2>4. IInit => ListIsKnown
    BY <2>1, <2>2 DEF ListIsKnown
  <2>5. IInit => FirstSetup
    BY <2>2, <2>3, Zenon DEF FirstSetup
  <2> QED BY <2>4, <2>5 DEF IpmiInv
<1>2. IpmiInv /\ [INext]_ivars => IpmiInv'
  <2> SUFFICES ASSUME IpmiInv, [INext]_ivars PROVE IpmiInv'
    OBVIOUS
  <2> USE DEF IpmiInv
  <2>1. CASE ipmi_setup
    <3>1. ~unsteady' /\ setups' = setups + 1 /\ iat = "idle" /\ iat' = "cipher"
          /\ UNCHANGED <<ipmi_required_options, ipmi_cipher_suite, efiboot, accepts>>
      BY <2>1, Zenon DEF ipmi_setup
    <3>2. setups \in Nat /\ (setups' = 1 => setups = 0) /\ setups' \in Nat /\ setups' # 0
      BY <3>1 DEF FirstSetup
    <3> QED BY <3>1, <3>2 DEF ListIsKnown, FirstSetup
  <2>2. CASE Cipher17
    <3>1. /\ iat = "cipher"
          /\ \/ Works("17") /\ ipmi_cipher_suite' = "17" /\ iat' = "boot"
             \/ Fails("17") /\ iat' = "cipher3" /\ UNCHANGED ipmi_cipher_suite
          /\ UNCHANGED <<ipmi_required_options, efiboot, accepts, setups>>
      BY <2>2 DEF Cipher17
    <3>2. FirstSetup'
      <4>1. CASE Works("17") /\ ipmi_cipher_suite' = "17" /\ iat' = "boot"
        <5>1. unsteady' = unsteady /\ (ipmi_required_options = Required => Pair(TRUE, "17") \in accepts)
          BY <4>1, ProbeEnds, ProbeIs
        <5> QED BY <3>1, <4>1, <5>1 DEF FirstSetup, CipherIsChosen
      <4>2. CASE Fails("17") /\ iat' = "cipher3" /\ UNCHANGED ipmi_cipher_suite
        <5>1. ~unsteady' => /\ unsteady' = unsteady
                            /\ ipmi_required_options = Required => Pair(TRUE, "17") \notin accepts
          BY <4>2, ProbeEnds, ProbeIs
        <5> QED BY <3>1, <4>2, <5>1 DEF FirstSetup
      <4> QED BY <3>1, <4>1, <4>2
    <3> QED BY <3>1, <3>2 DEF ListIsKnown
  <2>3. CASE Cipher3
    <3>1. /\ iat = "cipher3" /\ iat' = "boot"
          /\ \/ Works("3") /\ ipmi_cipher_suite' = "3"
             \/ Fails("3") /\ UNCHANGED ipmi_cipher_suite
          /\ UNCHANGED <<ipmi_required_options, efiboot, accepts, setups>>
      BY <2>3 DEF Cipher3
    <3>2. FirstSetup'
      <4>1. CASE Works("3") /\ ipmi_cipher_suite' = "3"
        <5>1. unsteady' = unsteady /\ (ipmi_required_options = Required => Pair(TRUE, "3") \in accepts)
          BY <4>1, ProbeEnds, ProbeIs
        <5> QED BY <3>1, <4>1, <5>1 DEF FirstSetup, CipherIsChosen
      <4>2. CASE Fails("3") /\ UNCHANGED ipmi_cipher_suite
        <5>1. ~unsteady' => /\ unsteady' = unsteady
                            /\ ipmi_required_options = Required => Pair(TRUE, "3") \notin accepts
          BY <4>2, ProbeEnds, ProbeIs
        <5> QED BY <3>1, <4>2, <5>1 DEF FirstSetup, CipherIsChosen, NeitherWorks
      <4> QED BY <3>1, <4>1, <4>2
    <3> QED BY <3>1, <3>2 DEF ListIsKnown
  <2>4. CASE BootMode
    <3>1. /\ iat = "boot" /\ iat' \in {"user", "boot_efi"}
          /\ Works(ipmi_cipher_suite) \/ Fails(ipmi_cipher_suite)
          /\ UNCHANGED <<ipmi_required_options, ipmi_cipher_suite, efiboot, accepts, setups>>
      BY <2>4 DEF BootMode
    <3> QED BY <3>1, ProbeEnds DEF FirstSetup, ListIsKnown, CipherIsChosen, NeitherWorks
  <2>5. CASE BootModeEfi
    <3>1. /\ iat = "boot_efi" /\ iat' = "user"
          /\ Works(ipmi_cipher_suite) \/ Fails(ipmi_cipher_suite)
          /\ UNCHANGED <<ipmi_required_options, ipmi_cipher_suite, accepts, setups>>
      BY <2>5 DEF BootModeEfi
    <3> QED BY <3>1, ProbeEnds DEF FirstSetup, ListIsKnown, CipherIsChosen, NeitherWorks
  <2>6. CASE WithUser
    <3>1. /\ iat = "user" /\ UNCHANGED <<ipmi_cipher_suite, efiboot, accepts, setups>>
      BY <2>6 DEF WithUser
    <3>2. CASE Works(ipmi_cipher_suite) /\ iat' = "idle" /\ UNCHANGED ipmi_required_options
      <4>1. GivesUser' = GivesUser
        BY <3>2 DEF GivesUser, ext_options
      <4> QED BY <3>1, <3>2, <4>1, ProbeEnds DEF FirstSetup, ListIsKnown
    <3>3. CASE Fails(ipmi_cipher_suite) /\ iat' = "no_user"
      <4>1. ipmi_required_options' = NoUser
        BY <2>6, <3>3, HasUser, IndexOf, RemovesAndInserts DEF WithUser, ListIsKnown
      <4>2. FirstSetup'
        BY <3>1, <3>3, <4>1, ProbeEnds, ProbeIs DEF FirstSetup, ListIsKnown, CipherIsChosen, NeitherWorks
      <4> QED BY <3>3, <4>1, <4>2 DEF ListIsKnown
    <3> QED BY <2>6, <3>2, <3>3 DEF WithUser
  <2>7. CASE WithoutUser
    <3>1. /\ iat = "no_user" /\ iat' = "idle" /\ ipmi_required_options = NoUser
          /\ UNCHANGED <<ipmi_cipher_suite, efiboot, accepts, setups>>
      BY <2>7 DEF WithoutUser, ListIsKnown
    <3>2. CASE Works(ipmi_cipher_suite) /\ UNCHANGED ipmi_required_options
      <4>1. GivesUser' = GivesUser
        BY <3>2 DEF GivesUser, ext_options
      <4>2. Pair(FALSE, ipmi_cipher_suite) \in accepts
        BY <3>1, <3>2, ProbeEnds, ProbeIs
      <4> QED BY <3>1, <3>2, <4>1, <4>2, ProbeEnds DEF FirstSetup, ListIsKnown
    <3>3. CASE Fails(ipmi_cipher_suite)
               /\ ipmi_required_options' = InsertAt(ipmi_required_options, index("P"), "U")
      <4>1. ipmi_required_options' = Required /\ Required # NoUser
        <5>1. Required # NoUser
          BY HasUser
        <5> QED BY <3>1, <3>3, <5>1, IndexOf, RemovesAndInserts
      <4>2. FirstSetup'
        BY <3>1, <3>3, <4>1, ProbeEnds, ProbeIs DEF FirstSetup, NeitherWorks
      <4> QED BY <3>1, <4>1, <4>2 DEF ListIsKnown
    <3> QED BY <2>7, <3>2, <3>3 DEF WithoutUser
  <2>8. CASE UNCHANGED ivars
    <3>1. GivesUser' = GivesUser
      BY <2>8 DEF ivars, GivesUser, ext_options
    <3> QED BY <2>8, <3>1 DEF ivars, ListIsKnown, FirstSetup, CipherIsChosen, NeitherWorks
  <2> QED BY <2>1, <2>2, <2>3, <2>4, <2>5, <2>6, <2>7, <2>8 DEF INext
<1> QED BY <1>1, <1>2, PTL DEF ISpec

(* Whatever is lost, the required options are all there and in order, but  *)
(* for U where the BMC does without it; and the first setup that loses     *)
(* nothing leaves options the BMC accepts, if it accepts any that are      *)
(* tried.                                                                  *)
THEOREM OptionsAreUsable == ISpec => [](OptionsIntact /\ UsableAfterSetup)
<1>1. ASSUME IpmiInv PROVE OptionsIntact
  <2>1. CASE ipmi_required_options = Required
    BY <2>1 DEF OptionsIntact
  <2>2. CASE iat = "idle" /\ ipmi_required_options = NoUser
    <3>1. PICK c : Pair(FALSE, c) \in accepts
      BY <1>1, <2>2 DEF IpmiInv, ListIsKnown
    <3>2. ~Pair(FALSE, c).u
      BY DEF Pair
    <3> QED BY <2>2, <3>1, <3>2, RemovesAndInserts DEF OptionsIntact
  <2> QED BY <1>1, <2>1, <2>2 DEF IpmiInv, ListIsKnown, OptionsIntact
<1>2. IpmiInv => UsableAfterSetup
  BY DEF IpmiInv, FirstSetup, UsableAfterSetup, NeitherWorks, Pair
<1> QED BY <1>1, <1>2, AlwaysIpmiInv, PTL

-----------------------------------------------------------------------------
(* The clients are what they are alone, so that what holds of each holds   *)
(* in the instance that is checked.                                        *)
THEOREM ClientsKeepWorking ==
  MCSpec => [](ConnectionsServe /\ ClientsWork /\ ListingIsEnumerated /\ EnumerationIsExact)
<1>1. MCInit => SInit /\ EInit /\ RSInit /\ IInit
  BY DEF MCInit
<1>2. [MCNext]_tvars => [SNext]_sshvars /\ [ENext]_evars /\ [RSNext]_rsvars /\ [INext]_ivars
  BY Zenon DEF MCNext, tvars, UseSsh, UseEnumerate, UseRedfish, UseIpmi
<1>3. MCSpec => SSpec /\ ESpec /\ RSSpec /\ ISpec
  BY <1>1, <1>2, PTL DEF MCSpec, SSpec, ESpec, RSSpec, ISpec
<1>4. LoginWorks /\ PathIsInUse /\ NoLostUpdate /\ OptionsIntact /\ UsableAfterSetup => ClientsWork
  BY DEF ClientsWork
<1> QED BY <1>3, <1>4, ConnectionsAlwaysServe, SessionWorks, OptionsAreUsable, ListingsAreEnumerated,
            EnumerationExact, PTL
=============================================================================
