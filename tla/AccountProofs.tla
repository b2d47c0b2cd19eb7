---------------------------- MODULE AccountProofs ----------------------------
(***************************************************************************)
(* Proofs about Account, for any accounts and bounds.                      *)
(***************************************************************************)
EXTENDS Account, FiniteSetTheorems, TLAPS

(***************************************************************************)
(* Which step writes which variable.                                       *)
(***************************************************************************)

(* The files and the connections opened to them.                           *)
LEMMA OpeningWriters ==
  ASSUME [Next]_vars
  PROVE  /\ file' # file => EnsureQuarantine \/ LogoutRemove \/ \E s \in Sessions : EnsureOpen(s)
         /\ contents' # contents => \E w \in Owners : LoginWrite(w)
         /\ sessions' # sessions => EnsureInsert \/ EnsureRegister
         /\ (opened' # opened \/ born' # born) => \E s \in Sessions : EnsureOpen(s)
         /\ live' # live => EnsureRefused \/ (\E s \in Sessions : Drop(s)) \/ \E s \in Sessions : EnsureOpen(s)
  BY DEF vars, Next, lifecycle, files, opening, telegram, calls, history,
     Connect, StartSignIn, ReconnectRead, ReconnectClear, EnsureBegin, EnsureStat, EnsureOpen, EnsureOpenFails,
     EnsureRetry, EnsureQuarantine, EnsureInsert, EnsureRegister, EnsureRefused, EnsureInstallSession,
     EnsureInstallClient, Drop, LoginCapture, LoginWrite, LoginFinish, LoginFails, Suspend,
     LogoutClearClient, LogoutClearApi, LogoutClearSession, LogoutRemove, OpenGuard

(* What TelegramState refers to, and the calls in progress.                *)
LEMMA CallWriters ==
  ASSUME [Next]_vars
  PROVE  /\ client' # client => ReconnectClear \/ EnsureInstallClient \/ LogoutClearClient
         /\ session' # session => EnsureInstallSession \/ LogoutClearSession
         /\ ensure' # ensure => \/ EnsureBegin \/ EnsureStat \/ (\E s \in Sessions : EnsureOpen(s))
                                \/ EnsureOpenFails \/ EnsureRetry \/ EnsureQuarantine \/ EnsureInsert
                                \/ EnsureRegister \/ EnsureRefused \/ EnsureInstallSession \/ EnsureInstallClient
         /\ login' # login => LoginCapture \/ (\E w \in Owners : LoginWrite(w)) \/ LoginFinish \/ LoginFails
  BY DEF vars, Next, lifecycle, files, opening, telegram, calls, history,
     Connect, StartSignIn, ReconnectRead, ReconnectClear, EnsureBegin, EnsureStat, EnsureOpen, EnsureOpenFails,
     EnsureRetry, EnsureQuarantine, EnsureInsert, EnsureRegister, EnsureRefused, EnsureInstallSession,
     EnsureInstallClient, Drop, LoginCapture, LoginWrite, LoginFinish, LoginFails, Suspend,
     LogoutClearClient, LogoutClearApi, LogoutClearSession, LogoutRemove, OpenGuard

(* The lifecycle and the history of sign-outs.                             *)
LEMMA LifecycleWriters ==
  ASSUME [Next]_vars
  PROVE  /\ (generation' # generation \/ ended' # ended) => Suspend
         /\ guard' # guard => OpenGuard
         /\ leftover' # leftover => LogoutRemove
         /\ signed_out' # signed_out => Suspend \/ \E w \in Owners : LoginWrite(w)
         /\ (logout' = "Idle" /\ logout # "Idle") => LogoutRemove
         /\ signing_out' # signing_out => Connect \/ LoginFinish \/ Suspend
  BY DEF vars, Next, lifecycle, files, opening, telegram, calls, history,
     Connect, StartSignIn, ReconnectRead, ReconnectClear, EnsureBegin, EnsureStat, EnsureOpen, EnsureOpenFails,
     EnsureRetry, EnsureQuarantine, EnsureInsert, EnsureRegister, EnsureRefused, EnsureInstallSession,
     EnsureInstallClient, Drop, LoginCapture, LoginWrite, LoginFinish, LoginFails, Suspend,
     LogoutClearClient, LogoutClearApi, LogoutClearSession, LogoutRemove, OpenGuard

(***************************************************************************)
(* Types.                                                                  *)
(***************************************************************************)
TypeEnsure ==
  ensure \in [pc : Unopened \cup Holding, session : Sessions \cup {None},
             before : Files \cup {None}, quarantined : BOOLEAN]
TypeLogin ==
  login \in [pc : {"Idle", "Asked", "Written"}, session : Sessions \cup {None},
            generation : 0..MaxGeneration, owner : Owners \cup {NoOwner}]
TypeOpening ==
  /\ sessions \in Entry \cup {NoEntry}
  /\ opened \in [Sessions -> Files \cup {None}] /\ born \in [Sessions -> 0..MaxGeneration]
  /\ live \in SUBSET Used /\ Referenced \subseteq live \cup {None}
TypeRest ==
  /\ generation \in 0..MaxGeneration /\ signing_out \in BOOLEAN
  /\ file \in Files \cup {None} /\ contents \in [Files -> Owners \cup {NoOwner}]
  /\ api_id \in BOOLEAN /\ connecting \in BOOLEAN /\ reconnect \in BOOLEAN
  /\ logout \in {"Idle", "Revoking", "ClientGone", "ApiGone", "SessionGone"}
  /\ guard \in [owner : Owners, generation : 0..MaxGeneration] \cup {NoGuard}
  /\ ended \in BOOLEAN /\ signed_out \in BOOLEAN /\ leftover \in BOOLEAN

LEMMA TypeParts == TypeOK <=> TypeEnsure /\ TypeLogin /\ TypeOpening /\ TypeRest
  BY Zenon DEF TypeOK, TypeEnsure, TypeLogin, TypeOpening, TypeRest

(* What is registered is either nothing or an entry.                       *)
LEMMA EntryFields ==
  ASSUME TypeOK
  PROVE  /\ sessions.session \in Sessions \cup {None} /\ sessions.identity \in Files \cup {None}
         /\ sessions.identity # None => sessions.session # None
         /\ sessions.generation \in Nat
  BY AccountAssumption DEF AccountAssumption, TypeOK, Entry, NoEntry, Sessions, Files, None

(* The owner of the session, when there is one, is an account.             *)
LEMMA OwnerOfAccount == ASSUME TypeOK, Numbered, RegistrySound PROVE CurrentOwner \in Owners \cup {NoOwner}
<1>1. Registered => opened[sessions.session] \in Files
  BY EntryFields DEF Registered, TypeOK, Used
<1>2. file # None => file \in Files
  BY DEF TypeOK
<1> QED
  BY <1>1, <1>2 DEF CurrentOwner, TypeOK

LEMMA EnsureTyped == ASSUME AccountInv, [Next]_vars PROVE TypeEnsure'
<1>0. TypeOK /\ TypeEnsure
  BY TypeParts DEF AccountInv
<1>1. CASE UNCHANGED ensure
  BY <1>0, <1>1 DEF TypeEnsure
<1>2. CASE EnsureStat
  <2>1. Registered => sessions.session \in Sessions \cup {None}
    BY <1>0, EntryFields
  <2>2. file \in Files \cup {None} /\ "Statted" \in Unopened /\ "Acquired" \in Holding
    BY <1>0 DEF TypeOK, Unopened, Holding
  <2> QED
    BY <1>0, <1>2, <2>1, <2>2 DEF EnsureStat, TypeEnsure, Reusable
<1>3. CASE EnsureQuarantine
  <2>1. NoEnsure \in [pc : Unopened \cup Holding, session : Sessions \cup {None},
                      before : Files \cup {None}, quarantined : BOOLEAN]
    BY DEF NoEnsure, Unopened
  <2>2. [ensure EXCEPT !.pc = "Begun", !.quarantined = TRUE] \in
           [pc : Unopened \cup Holding, session : Sessions \cup {None},
            before : Files \cup {None}, quarantined : BOOLEAN]
    <3>1. "Begun" \in Unopened \cup Holding /\ TRUE \in BOOLEAN
      BY DEF Unopened
    <3> QED
      BY <1>0, <3>1 DEF TypeEnsure
  <2> QED
    BY <1>3, <2>1, <2>2 DEF EnsureQuarantine, TypeEnsure
<1>4. CASE EnsureBegin \/ (\E s \in Sessions : EnsureOpen(s)) \/ EnsureInsert \/ EnsureRegister
  BY <1>0, <1>4 DEF EnsureBegin, EnsureOpen, EnsureInsert, EnsureRegister, TypeEnsure, NoEnsure, Unopened, Holding
<1>5. CASE EnsureRetry \/ EnsureRefused \/ EnsureInstallSession \/ EnsureInstallClient
  <2>1. CASE EnsureRetry
    BY <1>0, <2>1 DEF EnsureRetry, TypeEnsure, NoEnsure, Unopened, Holding
  <2>2. CASE EnsureRefused
    BY <1>0, <2>2 DEF EnsureRefused, TypeEnsure, NoEnsure, Unopened, Holding
  <2>3. CASE EnsureInstallSession
    BY <1>0, <2>3 DEF EnsureInstallSession, TypeEnsure, NoEnsure, Unopened, Holding
  <2>4. CASE EnsureInstallClient
    BY <1>0, <2>4 DEF EnsureInstallClient, TypeEnsure, NoEnsure, Unopened, Holding
  <2> QED
    BY <1>5, <2>1, <2>2, <2>3, <2>4
<1>6. CASE EnsureOpenFails
  BY <1>0, <1>6 DEF EnsureOpenFails, TypeEnsure, Unopened, Holding
<1> QED
  BY <1>1, <1>2, <1>3, <1>4, <1>5, <1>6, CallWriters

LEMMA LoginTyped == ASSUME AccountInv, [Next]_vars PROVE TypeLogin'
<1>0. TypeOK /\ TypeLogin
  BY TypeParts DEF AccountInv
<1>1. CASE UNCHANGED login
  BY <1>0, <1>1 DEF TypeLogin
<1>2. CASE LoginCapture
  <2>1. session \in Sessions \cup {None} /\ generation \in 0..MaxGeneration
    BY <1>0 DEF TypeOK, Referenced, Used
  <2>2. login' = [pc |-> "Asked", session |-> session, generation |-> generation, owner |-> NoOwner]
    BY <1>2 DEF LoginCapture
  <2> QED
    BY <2>1, <2>2 DEF TypeLogin
<1>3. CASE (\E w \in Owners : LoginWrite(w)) \/ LoginFinish \/ LoginFails
  <2>1. NoLogin \in [pc : {"Idle", "Asked", "Written"}, session : Sessions \cup {None},
                     generation : 0..MaxGeneration, owner : Owners \cup {NoOwner}]
    BY AccountAssumption DEF AccountAssumption, NoLogin
  <2> QED
    BY <1>0, <1>3, <2>1 DEF LoginWrite, LoginFinish, LoginFails, TypeLogin
<1> QED
  BY <1>1, <1>2, <1>3, CallWriters

LEMMA RestTyped == ASSUME AccountInv, [Next]_vars PROVE TypeRest'
<1>0. TypeOK /\ TypeRest
  BY TypeParts DEF AccountInv
<1>1. CASE UNCHANGED vars
  BY <1>0, <1>1 DEF TypeRest, vars
<1>2. CASE OpenGuard
  <2>1. CurrentOwner \in Owners /\ generation \in 0..MaxGeneration
    BY <1>2, OwnerOfAccount DEF OpenGuard, AccountInv, TypeOK
  <2>2. guard' \in [owner : Owners, generation : 0..MaxGeneration]
    BY <1>2, <2>1 DEF OpenGuard
  <2> QED
    BY <1>0, <1>2, <2>2 DEF OpenGuard, TypeRest, lifecycle, files, telegram, calls
<1>3. CASE Connect \/ StartSignIn \/ ReconnectRead \/ ReconnectClear
  BY <1>0, <1>3 DEF Connect, StartSignIn, ReconnectRead, ReconnectClear, TypeRest, lifecycle, files,
     telegram, calls, history
<1>4. CASE EnsureBegin \/ EnsureStat \/ EnsureOpenFails \/ EnsureRetry \/ EnsureQuarantine
  <2>1. CASE EnsureBegin
    BY <1>0, <2>1 DEF EnsureBegin, TypeRest, lifecycle, files, telegram, calls, history
  <2>2. CASE EnsureStat
    BY <1>0, <2>2 DEF EnsureStat, TypeRest, lifecycle, files, telegram, calls, history
  <2>3. CASE EnsureOpenFails
    BY <1>0, <2>3 DEF EnsureOpenFails, TypeRest, lifecycle, files, telegram, calls, history
  <2>4. CASE EnsureRetry
    BY <1>0, <2>4 DEF EnsureRetry, TypeRest, lifecycle, files, telegram, calls, history
  <2>5. CASE EnsureQuarantine
    BY <1>0, <2>5 DEF EnsureQuarantine, TypeRest, lifecycle, files, telegram, calls, history
  <2> QED
    BY <1>4, <2>1, <2>2, <2>3, <2>4, <2>5
<1>8. CASE \E s \in Sessions : EnsureOpen(s)
  BY <1>0, <1>8 DEF EnsureOpen, TypeRest, lifecycle, telegram, history
<1>5. CASE EnsureInsert \/ EnsureRegister \/ EnsureRefused \/ EnsureInstallSession \/ EnsureInstallClient
           \/ \E s \in Sessions : Drop(s)
  BY <1>0, <1>5 DEF EnsureInsert, EnsureRegister, EnsureRefused, EnsureInstallSession, EnsureInstallClient,
     Drop, TypeRest, lifecycle, files, telegram, calls, history
<1>6. CASE LoginCapture \/ LoginFinish \/ LoginFails
  <2>1. CASE LoginCapture
    BY <1>0, <2>1 DEF LoginCapture, TypeRest, lifecycle, files, telegram, history
  <2>2. CASE LoginFinish
    BY <1>0, <2>2 DEF LoginFinish, TypeRest, lifecycle, files, telegram, history
  <2>3. CASE LoginFails
    BY <1>0, <2>3 DEF LoginFails, TypeRest, lifecycle, files, telegram, history
  <2> QED
    BY <1>6, <2>1, <2>2, <2>3
<1>9. CASE \E w \in Owners : LoginWrite(w)
  <2>1. PICK w \in Owners : LoginWrite(w)
    BY <1>9
  <2>2. contents' \in [Files -> Owners \cup {NoOwner}]
    BY <1>0, <2>1 DEF LoginWrite, TypeRest
  <2> QED
    BY <1>0, <2>1, <2>2 DEF LoginWrite, TypeRest, lifecycle, telegram
<1>7. CASE LogoutClearClient \/ LogoutClearApi \/ LogoutClearSession \/ LogoutRemove
  BY <1>0, <1>7 DEF LogoutClearClient, LogoutClearApi, LogoutClearSession, LogoutRemove,
     TypeRest, lifecycle, files, telegram, history
<1>10. CASE Suspend
  <2>1. MaxGeneration \in Nat
    BY AccountAssumption DEF AccountAssumption
  <2>2. generation' \in 0..MaxGeneration /\ ended' \in BOOLEAN
    BY <1>0, <1>10, <2>1 DEF Suspend, TypeRest
  <2> QED
    BY <1>0, <1>10, <2>2 DEF Suspend, TypeRest, files, telegram
<1> QED
  BY <1>1, <1>2, <1>3, <1>4, <1>5, <1>6, <1>7, <1>8, <1>9, <1>10 DEF Next

(***************************************************************************)
(* Connections.                                                            *)
(***************************************************************************)

(* Opening makes a connection that was not there, to the file that is, or  *)
(* to one that was not there.                                              *)
LEMMA Opens ==
  ASSUME AccountInv, NEW s \in Sessions, EnsureOpen(s)
  PROVE  /\ s \notin Used /\ s \notin live /\ s \notin Referenced /\ sessions.session # s
         /\ opened' \in [Sessions -> Files \cup {None}] /\ born' \in [Sessions -> 0..MaxGeneration]
         /\ file' \in Files /\ opened'[s] = file' /\ born'[s] = generation
         /\ \A t \in Sessions : t # s => opened'[t] = opened[t] /\ born'[t] = born[t]
         /\ Used' = Used \cup {s}
         /\ IF file = None THEN file' = NewFile /\ file' \notin OpenedFiles ELSE file' = file
         /\ OpenedFiles' = OpenedFiles \cup {file'}
         /\ live' = live \cup {s}
         /\ ensure' = [ensure EXCEPT !.pc = "Opened", !.session = s]
         /\ UNCHANGED <<generation, contents, sessions, client, session, login>>
<1>0. TypeOK /\ Numbered
  BY DEF AccountInv
<1>1. /\ Used \subseteq Sessions /\ IsFiniteSet(Used) /\ Cardinality(Used) \in Nat
  <2>1. 1..MaxSessions = Sessions /\ IsFiniteSet(1..MaxSessions)
    BY AccountAssumption, FS_Interval DEF AccountAssumption, Sessions
  <2>2. Used \subseteq Sessions
    BY DEF Used
  <2> QED
    BY <2>1, <2>2, FS_Subset, FS_CardinalityType
<1>2. s = Cardinality(Used) + 1
  BY DEF EnsureOpen
<1>3. s \notin Used
  BY <1>0, <1>1, <1>2 DEF Numbered
<1>4. IsFiniteSet(OpenedFiles) /\ Cardinality(OpenedFiles) \in Nat
  <2>1. OpenedFiles \subseteq Files
    BY <1>0 DEF OpenedFiles, Used, TypeOK
  <2>2. 1..MaxFiles = Files /\ IsFiniteSet(1..MaxFiles)
    BY AccountAssumption, FS_Interval DEF AccountAssumption, Files
  <2> QED
    BY <2>1, <2>2, FS_Subset, FS_CardinalityType
<1>5. NewFile \notin OpenedFiles
  BY <1>0, <1>4 DEF Numbered, NewFile
<1>6. /\ file' \in Files /\ file' = IF file = None THEN NewFile ELSE file
      /\ opened' = [opened EXCEPT ![s] = file'] /\ born' = [born EXCEPT ![s] = generation]
      /\ live' = live \cup {s} /\ ensure' = [ensure EXCEPT !.pc = "Opened", !.session = s]
      /\ UNCHANGED <<generation, contents, sessions, client, session, login>>
  BY DEF EnsureOpen, lifecycle, telegram
<1>7. /\ opened' \in [Sessions -> Files \cup {None}] /\ born' \in [Sessions -> 0..MaxGeneration]
      /\ opened'[s] = file' /\ born'[s] = generation
      /\ \A t \in Sessions : t # s => opened'[t] = opened[t] /\ born'[t] = born[t]
  BY <1>0, <1>6 DEF TypeOK
<1>8. file' # None
  BY <1>6 DEF Files, None
<1>9. Used' = Used \cup {s}
  BY <1>7, <1>8 DEF Used
<1>10. OpenedFiles' = OpenedFiles \cup {file'}
  BY <1>3, <1>7, <1>9 DEF OpenedFiles, Used
<1>11. s # None
  BY DEF Sessions, None
<1>12. s \notin live /\ s \notin Referenced /\ sessions.session # s
  BY <1>0, <1>3, <1>11 DEF TypeOK, AccountInv, RegistrySound
<1> QED
  BY <1>3, <1>5, <1>6, <1>7, <1>9, <1>10, <1>12

LEMMA NumberedKept == ASSUME AccountInv, [Next]_vars PROVE Numbered'
<1>0. TypeOK /\ Numbered
  BY DEF AccountInv
<1>1. CASE \E s \in Sessions : EnsureOpen(s)
  <2>1. PICK s \in Sessions : EnsureOpen(s)
    BY <1>1
  <2>0. /\ s \notin Used /\ Used' = Used \cup {s} /\ OpenedFiles' = OpenedFiles \cup {file'}
        /\ file' \in Files /\ (file # None => file' = file) /\ (file = None => file' = NewFile)
        /\ UNCHANGED <<generation, contents>>
    BY <2>1, Opens
  <2>10. /\ born'[s] = generation /\ \A t \in Sessions : t # s => born'[t] = born[t]
    BY <2>1, Opens
  <2>2. s = Cardinality(Used) + 1
    BY <2>1 DEF EnsureOpen
  <2>3. /\ Used \subseteq Sessions /\ IsFiniteSet(Used) /\ Cardinality(Used) \in Nat
    <3>1. 1..MaxSessions = Sessions /\ IsFiniteSet(1..MaxSessions)
      BY AccountAssumption, FS_Interval DEF AccountAssumption, Sessions
    <3>2. Used \subseteq Sessions
      BY DEF Used
    <3> QED
      BY <3>1, <3>2, FS_Subset, FS_CardinalityType
  <2>4. Used' = 1..s /\ s \in Nat
    BY <1>0, <2>0, <2>2, <2>3 DEF Numbered
  <2>5. Cardinality(1..s) = s
    BY <2>4, FS_Interval
  <2>6. Used' = 1..Cardinality(Used')
    BY <2>4, <2>5
  <2>7. OpenedFiles' = 1..Cardinality(OpenedFiles')
    <3>1. CASE file # None
      <4>1. file' \in OpenedFiles
        BY <1>0, <2>0, <3>1 DEF Numbered
      <4>2. OpenedFiles' = OpenedFiles
        BY <2>0, <4>1
      <4> QED
        BY <1>0, <4>2 DEF Numbered
    <3>2. CASE file = None
      <4>1. OpenedFiles \subseteq Files
        BY <1>0 DEF OpenedFiles, Used, TypeOK
      <4>2. 1..MaxFiles = Files /\ IsFiniteSet(1..MaxFiles)
        BY AccountAssumption, FS_Interval DEF AccountAssumption, Files
      <4>3. Cardinality(OpenedFiles) \in Nat
        BY <4>1, <4>2, FS_Subset, FS_CardinalityType
      <4>4. OpenedFiles' = OpenedFiles \cup {Cardinality(OpenedFiles) + 1}
        BY <2>0, <3>2 DEF NewFile
      <4>5. OpenedFiles' = 1..(Cardinality(OpenedFiles) + 1)
        BY <1>0, <4>3, <4>4 DEF Numbered
      <4>6. Cardinality(1..(Cardinality(OpenedFiles) + 1)) = Cardinality(OpenedFiles) + 1
        BY <4>3, FS_Interval
      <4> QED
        BY <4>5, <4>6
    <3> QED
      BY <3>1, <3>2
  <2>8. /\ file' \in OpenedFiles'
        /\ \A f \in Files : contents'[f] # NoOwner => f \in OpenedFiles'
    BY <1>0, <2>0 DEF Numbered
  <2>9. \A t \in Used' : born'[t] <= generation'
    <3>1. generation <= generation
      BY <1>0 DEF TypeOK
    <3> QED
      BY <1>0, <2>0, <2>3, <2>10, <3>1 DEF Numbered
  <2> QED
    BY <2>6, <2>7, <2>8, <2>9 DEF Numbered
<1>2. CASE UNCHANGED <<opened, born>>
  <2>1. Used' = Used /\ OpenedFiles' = OpenedFiles
    BY <1>2 DEF Used, OpenedFiles
  <2>2. file' \in OpenedFiles \cup {None}
    <3>1. file' \in {file, None} \/ \E s \in Sessions : EnsureOpen(s)
      BY OpeningWriters DEF EnsureQuarantine, LogoutRemove
    <3> QED
      BY <1>0, <2>1, <3>1, Opens DEF Numbered
  <2>3. \A f \in Files : contents'[f] # NoOwner => f \in OpenedFiles
    <3>1. CASE UNCHANGED contents
      BY <1>0, <3>1 DEF Numbered
    <3>2. CASE \E w \in Owners : LoginWrite(w)
      <4>1. login.session \in Used
        BY <1>0, <3>2 DEF LoginWrite, TypeOK, Referenced, AccountInv, LoginSound
      <4>2. opened[login.session] \in OpenedFiles
        BY <4>1 DEF OpenedFiles
      <4> QED
        BY <1>0, <3>2, <4>2 DEF Numbered, LoginWrite, TypeOK
    <3> QED
      BY <3>1, <3>2, OpeningWriters
  <2>4. generation' = generation \/ generation' = generation + 1
    BY LifecycleWriters DEF Suspend
  <2>5. \A t \in Used : born[t] \in Nat /\ born[t] <= generation /\ generation \in Nat
    BY <1>0, AccountAssumption DEF AccountAssumption, Numbered, TypeOK, Used
  <2>6. \A t \in Used' : born'[t] <= generation'
    BY <1>2, <2>1, <2>4, <2>5
  <2> QED
    BY <1>0, <2>1, <2>2, <2>3, <2>6 DEF Numbered
<1> QED
  BY <1>1, <1>2, OpeningWriters

(* An initialisation that begins, or that could not open the file, has     *)
(* nothing open.                                                           *)
LEMMA StartsOver ==
  ASSUME AccountInv, EnsureBegin \/ EnsureRetry \/ EnsureQuarantine
  PROVE  /\ ensure' # ensure => ensure'.pc \in {"Begun", "Idle"} /\ ensure'.session = None
         /\ client # None => ensure' = ensure
<1>0. TypeOK /\ EnsureSound
  BY DEF AccountInv
<1>1. CASE EnsureBegin
  <2>1. [NoEnsure EXCEPT !.pc = "Begun"].pc = "Begun" /\ [NoEnsure EXCEPT !.pc = "Begun"].session = None
    BY DEF NoEnsure
  <2>2. CASE client = None
    <3>1. ensure' = [NoEnsure EXCEPT !.pc = "Begun"]
      BY <1>1, <2>2 DEF EnsureBegin
    <3> QED
      BY <2>1, <2>2, <3>1
  <2>3. CASE client # None
    <3>1. ensure' = ensure
      BY <1>1, <2>3 DEF EnsureBegin
    <3> QED
      BY <3>1
  <2> QED
    BY <2>2, <2>3
<1>2. CASE EnsureRetry
  BY <1>0, <1>2 DEF EnsureRetry, TypeOK, EnsureSound, Holding
<1>3. CASE EnsureQuarantine
  <2>1. ensure.pc = "Failed" /\ ensure.session = None /\ client = None
    BY <1>0, <1>3 DEF EnsureQuarantine, EnsureSound, Holding
  <2>2. CASE ensure' = NoEnsure
    BY <2>1, <2>2 DEF NoEnsure
  <2>3. CASE ensure' = [ensure EXCEPT !.pc = "Begun", !.quarantined = TRUE]
    BY <1>0, <2>1, <2>3 DEF TypeOK
  <2> QED
    BY <1>3, <2>2, <2>3 DEF EnsureQuarantine
<1> QED
  BY <1>1, <1>2, <1>3

(* What is live was opened, and what is referred to is live.               *)
LEMMA OpeningTyped == ASSUME AccountInv, [Next]_vars PROVE TypeOpening'
<1>0. TypeOK /\ TypeOpening /\ EnsureSound /\ live \subseteq Used /\ Referenced \subseteq live \cup {None}
  BY TypeParts DEF AccountInv, TypeOpening
<1>1. sessions' \in Entry \cup {NoEntry}
  <2>1. CASE UNCHANGED sessions
    BY <1>0, <2>1 DEF TypeOpening
  <2>2. CASE EnsureInsert
    <3>1. ensure.session \in Sessions
      BY <1>0, <2>2 DEF EnsureInsert, EnsureSound, Holding, TypeOK
    <3>2. /\ sessions' = [session |-> ensure.session, identity |-> IF ensure.before \in {None, file} THEN file ELSE None,
                         generation |-> generation, ready |-> FALSE]
          /\ file \in Files \cup {None} /\ generation \in 0..MaxGeneration
      BY <1>0, <2>2 DEF EnsureInsert, TypeOK
    <3> QED
      BY <3>1, <3>2 DEF Entry
  <2>3. CASE EnsureRegister
    <3>1. sessions \in Entry
      BY <1>0, <2>3 DEF EnsureRegister, SameFile, TypeOpening, NoEntry
    <3>2. sessions' = [sessions EXCEPT !.ready = TRUE]
      BY <2>3 DEF EnsureRegister
    <3> QED
      BY <3>1, <3>2 DEF Entry
  <2> QED
    BY <2>1, <2>2, <2>3, OpeningWriters
<1>2. /\ opened' \in [Sessions -> Files \cup {None}] /\ born' \in [Sessions -> 0..MaxGeneration]
      /\ Used \subseteq Used'
  <2>1. CASE UNCHANGED <<opened, born>>
    BY <1>0, <2>1 DEF TypeOpening, Used
  <2>2. CASE \E s \in Sessions : EnsureOpen(s)
    BY <2>2, Opens
  <2> QED
    BY <2>1, <2>2, OpeningWriters
<1>3. live' \subseteq Used'
  <2>1. CASE \E s \in Sessions : EnsureOpen(s)
    <3>1. PICK s \in Sessions : EnsureOpen(s)
      BY <2>1
    <3>2. live' = live \cup {s} /\ Used' = Used \cup {s}
      BY <3>1, Opens
    <3> QED
      BY <1>0, <3>2
  <2>2. CASE ~\E s \in Sessions : EnsureOpen(s)
    <3>1. live' \subseteq live
      BY <2>2, OpeningWriters DEF EnsureRefused, Drop
    <3> QED
      BY <1>0, <1>2, <3>1
  <2> QED
    BY <2>1, <2>2
<1>4. Referenced' \subseteq live' \cup {None}
  <2>1. CASE EnsureRefused
    <3>1. client = None
      BY <1>0, <2>1 DEF EnsureRefused, EnsureSound
    <3>2. Referenced' = {client, session, None, login.session}
      BY <2>1 DEF EnsureRefused, Referenced, NoEnsure, lifecycle, files, telegram
    <3> QED
      BY <1>0, <2>1, <3>1, <3>2 DEF EnsureRefused, Referenced
  <2>2. CASE \E s \in Sessions : EnsureOpen(s)
    <3>1. PICK s \in Sessions : EnsureOpen(s)
      BY <2>2
    <3>2. /\ live' = live \cup {s} /\ UNCHANGED <<client, session, login>>
          /\ ensure' = [ensure EXCEPT !.pc = "Opened", !.session = s]
      BY <3>1, Opens
    <3>3. ensure'.session = s
      BY <1>0, <3>2 DEF TypeOK
    <3> QED
      BY <1>0, <3>2, <3>3 DEF Referenced
  <2>3. CASE \E s \in Sessions : Drop(s)
    BY <1>0, <2>3 DEF Drop, Referenced, telegram, calls
  <2>4. CASE ~EnsureRefused /\ ~(\E s \in Sessions : EnsureOpen(s)) /\ ~\E s \in Sessions : Drop(s)
    <3>1. live' = live
      BY <2>4, OpeningWriters
    <3>2. client' \in Referenced \cup {None}
      BY CallWriters DEF ReconnectClear, EnsureInstallClient, LogoutClearClient, Referenced
    <3>3. session' \in Referenced \cup {None}
      BY CallWriters DEF EnsureInstallSession, LogoutClearSession, Referenced
    <3>4. login'.session \in Referenced \cup {None}
      <4>1. CASE UNCHANGED login
        BY <4>1 DEF Referenced
      <4>2. CASE LoginCapture
        BY <4>2 DEF LoginCapture, Referenced
      <4>3. CASE (\E w \in Owners : LoginWrite(w)) \/ LoginFinish \/ LoginFails
        <5>1. \A w \in Owners : LoginWrite(w) => login'.session = login.session
          BY <1>0 DEF LoginWrite, TypeOK
        <5>2. LoginFinish \/ LoginFails => login'.session = None
          BY DEF LoginFinish, LoginFails, NoLogin
        <5> QED
          BY <4>3, <5>1, <5>2 DEF Referenced
      <4> QED
        BY <4>1, <4>2, <4>3, CallWriters
    <3>5. ensure'.session \in live \cup {None}
      <4>1. ensure.session \in live \cup {None}
        BY <1>0 DEF Referenced
      <4>2. CASE UNCHANGED ensure
        BY <4>1, <4>2
      <4>3. CASE EnsureStat
        <5>1. ensure' = IF Reusable THEN [ensure EXCEPT !.pc = "Acquired", !.session = sessions.session]
                        ELSE [ensure EXCEPT !.pc = "Statted", !.before = file]
          BY <4>3 DEF EnsureStat
        <5>2. Reusable => sessions.session \in live
          BY DEF Reusable, Registered
        <5> QED
          BY <1>0, <4>1, <5>1, <5>2 DEF TypeOK
      <4>4. CASE EnsureBegin \/ EnsureRetry \/ EnsureQuarantine
        BY <4>1, <4>4, StartsOver
      <4>5. CASE EnsureOpenFails
        BY <1>0, <4>1, <4>5 DEF EnsureOpenFails, TypeOK
      <4>6. CASE EnsureInsert \/ EnsureRegister \/ EnsureInstallSession \/ EnsureInstallClient
        BY <1>0, <4>1, <4>6 DEF EnsureInsert, EnsureRegister, EnsureInstallSession, EnsureInstallClient, NoEnsure, TypeOK
      <4> QED
        BY <2>4, <4>2, <4>3, <4>4, <4>5, <4>6, CallWriters
    <3> QED
      BY <1>0, <3>1, <3>2, <3>3, <3>4, <3>5 DEF Referenced
  <2> QED
    BY <2>1, <2>2, <2>3, <2>4
<1> QED
  BY <1>1, <1>2, <1>3, <1>4 DEF TypeOpening

(* The client lock keeps the initialisation alone.                         *)
LEMMA EnsureKept == ASSUME AccountInv, [Next]_vars PROVE EnsureSound'
<1>0. TypeOK /\ EnsureSound
  BY DEF AccountInv
<1>1. ensure'.pc # "Idle" => client' = None
  <2>1. CASE UNCHANGED ensure
    <3>1. ensure.pc # "Idle" => client = None
      BY <1>0 DEF EnsureSound
    <3>2. EnsureInstallClient => ensure'.pc = "Idle"
      BY DEF EnsureInstallClient, NoEnsure
    <3>3. ReconnectClear \/ LogoutClearClient => client' = None
      BY DEF ReconnectClear, LogoutClearClient
    <3> QED
      BY <2>1, <3>1, <3>2, <3>3, CallWriters
  <2>2. CASE EnsureBegin
    BY <1>0, <2>2 DEF EnsureBegin, EnsureSound, telegram
  <2>3. CASE EnsureInstallClient \/ EnsureRefused
    BY <2>3 DEF EnsureInstallClient, EnsureRefused, NoEnsure
  <2>4. CASE \/ EnsureStat \/ (\E s \in Sessions : EnsureOpen(s)) \/ EnsureOpenFails \/ EnsureRetry
             \/ EnsureQuarantine \/ EnsureInsert \/ EnsureRegister \/ EnsureInstallSession
    <3>1. ensure.pc # "Idle" /\ client' = client
      BY <2>4 DEF EnsureStat, EnsureOpen, EnsureOpenFails, EnsureRetry, EnsureQuarantine, EnsureInsert,
         EnsureRegister, EnsureInstallSession, telegram
    <3> QED
      BY <1>0, <3>1 DEF EnsureSound
  <2> QED
    BY <2>1, <2>2, <2>3, <2>4, CallWriters
<1>2. ensure'.session # None <=> ensure'.pc \in Holding
  <2>0. ensure.session # None <=> ensure.pc \in Holding
    BY <1>0 DEF EnsureSound
  <2>1. CASE UNCHANGED ensure
    BY <2>0, <2>1
  <2>2. CASE EnsureStat
    <3>1. ensure' = IF Reusable THEN [ensure EXCEPT !.pc = "Acquired", !.session = sessions.session]
                    ELSE [ensure EXCEPT !.pc = "Statted", !.before = file]
      BY <2>2 DEF EnsureStat
    <3>2. Reusable => sessions.session # None
      BY DEF Reusable, Registered
    <3>3. ensure.pc = "Begun"
      BY <2>2 DEF EnsureStat
    <3> QED
      BY <1>0, <2>0, <3>1, <3>2, <3>3 DEF TypeOK, Holding
  <2>3. CASE EnsureBegin \/ EnsureRetry \/ EnsureQuarantine
    BY <2>0, <2>3, StartsOver DEF Holding
  <2>4. CASE EnsureOpenFails
    BY <1>0, <2>0, <2>4 DEF EnsureOpenFails, TypeOK, Holding
  <2>5. CASE EnsureInsert \/ EnsureRegister \/ EnsureInstallSession \/ EnsureInstallClient \/ EnsureRefused
    BY <1>0, <2>0, <2>5 DEF EnsureInsert, EnsureRegister, EnsureInstallSession, EnsureInstallClient, EnsureRefused,
       NoEnsure, TypeOK, Holding
  <2>6. CASE \E s \in Sessions : EnsureOpen(s)
    <3>1. PICK s \in Sessions : EnsureOpen(s)
      BY <2>6
    <3>2. ensure' = [ensure EXCEPT !.pc = "Opened", !.session = s] /\ s # None
      <4>1. ensure' = [ensure EXCEPT !.pc = "Opened", !.session = s]
        BY <3>1, Opens
      <4> QED
        BY <4>1 DEF Sessions, None
    <3> QED
      BY <1>0, <3>2 DEF TypeOK, Holding
  <2> QED
    BY <2>1, <2>2, <2>3, <2>4, <2>5, <2>6, CallWriters
<1>3. ensure'.pc = "Opened" => /\ file' \in {None, opened'[ensure'.session]} /\ born'[ensure'.session] = generation'
                              /\ ensure'.session \notin {session', login'.session}
  <2>1. CASE \E s \in Sessions : EnsureOpen(s)
    <3>1. PICK s \in Sessions : EnsureOpen(s)
      BY <2>1
    <3>2. ensure' = [ensure EXCEPT !.pc = "Opened", !.session = s]
      BY <3>1, Opens
    <3>3. ensure'.session = s
      BY <1>0, <3>2 DEF TypeOK
    <3>4. opened'[s] = file' /\ born'[s] = generation /\ generation' = generation
      BY <3>1, Opens
    <3>5. s \notin {session', login'.session}
      BY <3>1, Opens DEF Referenced
    <3> QED
      BY <3>3, <3>4, <3>5
  <2>2. CASE ~\E s \in Sessions : EnsureOpen(s)
    <3>1. UNCHANGED <<opened, born>>
      BY <2>2, OpeningWriters
    <3>2. SUFFICES ASSUME ensure'.pc = "Opened" PROVE ensure' = ensure
      <4>1. file' \in {None, file}
        BY <2>2, OpeningWriters DEF EnsureQuarantine, LogoutRemove
      <4>2. ensure.pc = "Opened" => generation' = generation
        BY LifecycleWriters DEF Suspend, RegistryFree
      <4>3. ensure.pc = "Opened" => /\ session' \in {session, None}
                                    /\ login'.session \in {login.session, None}
        <5>1. ensure.pc = "Opened" => session' \in {session, None}
          BY CallWriters DEF EnsureInstallSession, LogoutClearSession
        <5>2. \A w \in Owners : LoginWrite(w) => login'.session = login.session
          BY <1>0 DEF LoginWrite, TypeOK
        <5>3. LoginFinish \/ LoginFails => login'.session = None
          BY DEF LoginFinish, LoginFails, NoLogin
        <5>4. ensure.pc = "Opened" => ~LoginCapture
          BY DEF LoginCapture, ClientFree
        <5> QED
          BY <5>1, <5>2, <5>3, <5>4, CallWriters
      <4>4. ensure.pc = "Opened" => ensure.session # None
        BY <1>0 DEF EnsureSound, Holding
      <4> QED
        BY <1>0, <3>1, <3>2, <4>1, <4>2, <4>3, <4>4 DEF EnsureSound
    <3>3. EnsureBegin \/ EnsureRetry \/ EnsureQuarantine => ensure' = ensure
      BY <3>2, StartsOver
    <3>4. ~EnsureInsert /\ ~EnsureRegister /\ ~EnsureInstallSession /\ ~EnsureInstallClient /\ ~EnsureRefused
      BY <1>0, <3>2 DEF EnsureInsert, EnsureRegister, EnsureInstallSession, EnsureInstallClient, EnsureRefused,
         NoEnsure, TypeOK
    <3>5. ~EnsureStat
      BY <1>0, <3>2 DEF EnsureStat, TypeOK
    <3>6. ~EnsureOpenFails
      BY <1>0, <3>2 DEF EnsureOpenFails, TypeOK
    <3> QED
      BY <2>2, <3>3, <3>4, <3>5, <3>6, CallWriters
  <2> QED
    BY <2>1, <2>2
<1> QED
  BY <1>1, <1>2, <1>3 DEF EnsureSound

(* A connection of this generation and file that nobody registered yet is  *)
(* in the hands of the initialisation that opened it.                      *)
LEMMA OneWriterKept == ASSUME AccountInv, [Next]_vars PROVE OneWriter'
<1>0. TypeOK /\ OneWriter /\ RegistrySound /\ Numbered
  BY DEF AccountInv
<1>1. CASE \E s \in Sessions : EnsureOpen(s)
  <2>1. PICK s \in Sessions : EnsureOpen(s)
    BY <1>1
  <2>2. /\ opened'[s] = file' /\ born'[s] = generation /\ live' = live \cup {s} /\ s \notin live
        /\ \A t \in Sessions : t # s => opened'[t] = opened[t] /\ born'[t] = born[t]
    BY <2>1, Opens
  <2>3. IF file = None THEN file' \notin OpenedFiles ELSE file' = file
    BY <2>1, Opens
  <2>4. live \subseteq Used /\ live \subseteq Sessions
    BY <1>0 DEF TypeOK, Used
  <2>5. ASSUME NEW t \in live PROVE ~(opened[t] = file' /\ born[t] = generation)
    <3>1. CASE file = None
      BY <2>3, <2>4, <3>1 DEF OpenedFiles
    <3>2. CASE file # None
      <4>1. ensure.pc = "Statted"
        BY <2>1 DEF EnsureOpen
      <4> QED
        BY <1>0, <2>3, <3>2, <4>1 DEF RegistrySound
    <3> QED
      BY <3>1, <3>2
  <2>6. \A t \in live : opened'[t] = opened[t] /\ born'[t] = born[t]
    BY <2>2, <2>4
  <2>7. SUFFICES ASSUME NEW q \in live', NEW t \in live', opened'[q] = opened'[t], born'[q] = born'[t]
                 PROVE  q = t
    BY DEF OneWriter
  <2>8. CASE q = s \/ t = s
    BY <2>2, <2>5, <2>6, <2>7, <2>8
  <2>9. CASE q # s /\ t # s
    BY <1>0, <2>2, <2>6, <2>7, <2>9 DEF OneWriter
  <2> QED
    BY <2>8, <2>9
<1>2. CASE ~\E s \in Sessions : EnsureOpen(s)
  <2>1. UNCHANGED <<opened, born>> /\ live' \subseteq live
    BY <1>2, OpeningWriters DEF EnsureRefused, Drop
  <2> QED
    BY <1>0, <2>1 DEF OneWriter
<1> QED
  BY <1>1, <1>2

(* The step to the next generation leaves every connection behind.         *)
LEMMA NewGeneration ==
  ASSUME AccountInv, Suspend
  PROVE  \A t \in live : born[t] # generation'
<1>1. \A t \in live : born[t] <= generation /\ born[t] \in Nat
  BY AccountAssumption DEF AccountAssumption, AccountInv, TypeOK, Numbered, Used
<1>2. generation' = generation + 1 /\ generation \in Nat
  BY AccountAssumption DEF AccountAssumption, AccountInv, TypeOK, Suspend
<1> QED
  BY <1>1, <1>2

LEMMA RegistryKept == ASSUME AccountInv, [Next]_vars PROVE RegistrySound'
<1>0. TypeOK /\ RegistrySound /\ Numbered /\ EnsureSound /\ OneWriter /\ live \subseteq Used
  BY DEF AccountInv, TypeOK
<1>1. CASE \E s \in Sessions : EnsureOpen(s)
  <2>1. PICK s \in Sessions : EnsureOpen(s)
    BY <1>1
  <2>2. /\ s \notin Used /\ Used' = Used \cup {s} /\ live' = live \cup {s} /\ s \notin Referenced
        /\ opened'[s] = file' /\ born'[s] = generation /\ sessions.session # s
        /\ \A t \in Sessions : t # s => opened'[t] = opened[t] /\ born'[t] = born[t]
        /\ UNCHANGED <<generation, sessions, session, login>>
        /\ ensure' = [ensure EXCEPT !.pc = "Opened", !.session = s]
    BY <2>1, Opens
  <2>3. IF file = None THEN file' \notin OpenedFiles ELSE file' = file
    BY <2>1, Opens
  <2>4. ensure'.pc = "Opened" /\ ensure'.session = s
    BY <1>0, <2>2 DEF TypeOK
  <2>5. sessions'.session \in Used' \cup {None}
    BY <1>0, <2>2 DEF RegistrySound
  <2>6. sessions'.identity # None => sessions'.identity = opened'[sessions'.session]
    <3>1. sessions.identity # None => sessions.session \in Sessions
      BY <1>0, EntryFields
    <3> QED
      BY <1>0, <2>2, <3>1 DEF RegistrySound
  <2>7. ASSUME NEW t \in live', file' # None, opened'[t] = file', born'[t] = generation'
        PROVE  ensure'.pc # "Statted" /\ Known(t)'
    <3>1. t = s
      <4>1. SUFFICES ASSUME t # s PROVE FALSE
        OBVIOUS
      <4>2. t \in live /\ t \in Used /\ t \in Sessions
        BY <1>0, <2>2, <4>1 DEF Used
      <4>3. opened[t] = file' /\ born[t] = generation
        BY <2>2, <2>7, <4>1, <4>2
      <4>4. CASE file = None
        BY <2>3, <4>2, <4>3, <4>4 DEF OpenedFiles
      <4>5. CASE file # None
        <5>1. ensure.pc = "Statted"
          BY <2>1 DEF EnsureOpen
        <5> QED
          BY <1>0, <2>3, <4>2, <4>3, <4>5, <5>1 DEF RegistrySound
      <4> QED
        BY <4>4, <4>5
    <3>2. s \notin {session', login'.session}
      BY <2>2 DEF Referenced
    <3> QED
      BY <2>4, <3>1, <3>2 DEF Known
  <2> QED
    BY <2>5, <2>6, <2>7 DEF RegistrySound
<1>2. CASE ~\E s \in Sessions : EnsureOpen(s)
  <2>0. UNCHANGED <<opened, born>> /\ Used' = Used /\ live' \subseteq live /\ file' \in {file, None}
    <3>1. UNCHANGED <<opened, born>> /\ live' \subseteq live
      BY <1>2, OpeningWriters DEF EnsureRefused, Drop
    <3>2. file' \in {file, None}
      BY <1>2, OpeningWriters DEF EnsureQuarantine, LogoutRemove
    <3> QED
      BY <3>1, <3>2 DEF Used
  <2>1. CASE EnsureInsert
    <3>1. ensure.pc = "Opened" /\ ensure'.pc = "Acquired" /\ ensure'.session = ensure.session
      BY <1>0, <2>1 DEF EnsureInsert, TypeOK
    <3>2. /\ sessions'.session = ensure.session /\ sessions'.generation = generation
          /\ sessions'.identity = IF ensure.before \in {None, file} THEN file ELSE None
          /\ UNCHANGED <<file, generation, session, login, live>>
      BY <2>1 DEF EnsureInsert, lifecycle, files, telegram
    <3>3. ensure.session \in live
      BY <1>0, <3>1 DEF TypeOK, Referenced, EnsureSound, Holding
    <3>4. sessions'.session \in Used'
      BY <1>0, <2>0, <3>2, <3>3
    <3>5. file \in {None, opened[ensure.session]} /\ born[ensure.session] = generation
      BY <1>0, <3>1 DEF EnsureSound
    <3>6. sessions'.identity # None => sessions'.identity = opened'[sessions'.session]
      BY <2>0, <3>2, <3>5
    <3>7. ASSUME NEW t \in live', file' # None, opened'[t] = file', born'[t] = generation'
          PROVE  ensure'.pc # "Statted" /\ Known(t)'
      <4>1. t \in live /\ opened[t] = file /\ born[t] = generation /\ file # None
        BY <2>0, <3>2, <3>7
      <4>2. t = ensure.session
        BY <1>0, <3>3, <3>5, <4>1 DEF OneWriter
      <4>3. t \notin {session, login.session}
        BY <1>0, <3>1, <4>2 DEF EnsureSound
      <4> QED
        BY <3>1, <3>2, <4>2, <4>3 DEF Known
    <3> QED
      BY <3>4, <3>6, <3>7 DEF RegistrySound
  <2>2. CASE ~EnsureInsert
    <3>1. /\ sessions'.session = sessions.session /\ sessions'.generation = sessions.generation
          /\ sessions'.identity = sessions.identity
      <4>1. CASE UNCHANGED sessions
        BY <4>1
      <4>2. CASE EnsureRegister
        BY <1>0, <4>2 DEF EnsureRegister, SameFile, TypeOK, Entry, NoEntry
      <4> QED
        BY <2>2, <4>1, <4>2, OpeningWriters
    <3>2. ASSUME NEW t \in live', file' # None, opened'[t] = file', born'[t] = generation'
          PROVE  ensure'.pc # "Statted" /\ Known(t)'
      <4>1. t \in live /\ file' = file /\ opened[t] = file
        BY <2>0, <3>2
      <4>2. generation' = generation
        BY <2>0, <3>2, <4>1, LifecycleWriters, NewGeneration
      <4>3. ensure.pc # "Statted" /\ Known(t)
        BY <1>0, <2>0, <3>2, <4>1, <4>2 DEF RegistrySound
      <4>4. CASE sessions.session = t /\ sessions.generation = generation /\ sessions.identity = file
        <5>1. Known(t)'
          BY <3>1, <4>1, <4>2, <4>4 DEF Known
        <5>2. ensure'.pc # "Statted"
          <6>1. CASE EnsureStat
            <7>1. Reusable
              BY <4>1, <4>4, <3>2 DEF Reusable, Registered, SameFile, TypeOK, AccountInv, Used, Sessions, None
            <7> QED
              BY <1>0, <6>1, <7>1 DEF EnsureStat, TypeOK
          <6>2. CASE EnsureBegin \/ EnsureRetry \/ EnsureQuarantine
            BY <4>3, <6>2, StartsOver
          <6>3. CASE EnsureRegister \/ EnsureInstallSession \/ EnsureInstallClient \/ EnsureRefused
            BY <1>0, <6>3 DEF EnsureRegister, EnsureInstallSession, EnsureInstallClient, EnsureRefused, NoEnsure, TypeOK
          <6>4. ~EnsureOpenFails
            BY <4>3 DEF EnsureOpenFails
          <6> QED
            BY <1>2, <2>2, <4>3, <6>1, <6>2, <6>3, <6>4, CallWriters
        <5> QED
          BY <5>1, <5>2
      <4>5. CASE ensure.pc \in {"Opened", "Acquired"} /\ ensure.session = t /\ t \notin {session, login.session}
        <5>1. CASE UNCHANGED ensure
          <6>1. session' \in {session, None}
            BY <4>5, CallWriters DEF EnsureInstallSession, LogoutClearSession
          <6>2. \A w \in Owners : LoginWrite(w) => login'.session = login.session
            BY <1>0 DEF LoginWrite, TypeOK
          <6>3. LoginFinish \/ LoginFails => login'.session = None
            BY DEF LoginFinish, LoginFails, NoLogin
          <6>4. ~LoginCapture
            BY <4>5 DEF LoginCapture, ClientFree
          <6>5. login'.session \in {login.session, None}
            BY <6>2, <6>3, <6>4, CallWriters
          <6>6. t # None
            BY <1>0, <4>1 DEF Used, Sessions, None
          <6> QED
            BY <4>5, <5>1, <6>1, <6>5, <6>6 DEF Known
        <5>2. CASE EnsureRegister
          <6>1. ensure'.pc = "Registered"
            BY <1>0, <5>2 DEF EnsureRegister, TypeOK
          <6>2. sessions.session = ensure.session /\ sessions.generation = generation /\ sessions.identity = file
            BY <5>2 DEF EnsureRegister, SameFile
          <6> QED
            BY <3>1, <4>1, <4>2, <4>5, <6>1, <6>2 DEF Known
        <5>3. CASE EnsureRefused
          <6>1. t \notin live'
            BY <4>5, <5>3 DEF EnsureRefused
          <6> QED
            BY <3>2, <6>1
        <5>4. ~EnsureStat /\ ~EnsureOpenFails /\ ~EnsureRetry /\ ~EnsureQuarantine /\ ~EnsureBegin
          BY <4>5 DEF EnsureStat, EnsureOpenFails, EnsureRetry, EnsureQuarantine, EnsureBegin, ClientFree
        <5>5. ~EnsureInstallSession /\ ~EnsureInstallClient
          BY <4>5 DEF EnsureInstallSession, EnsureInstallClient
        <5> QED
          BY <1>2, <2>2, <5>1, <5>2, <5>3, <5>4, <5>5, CallWriters
      <4> QED
        BY <4>3, <4>4, <4>5 DEF Known
    <3> QED
      BY <1>0, <2>0, <3>1, <3>2 DEF RegistrySound
  <2> QED
    BY <2>1, <2>2
<1> QED
  BY <1>1, <1>2

(***************************************************************************)
(* Logins, guards and sign-outs.                                           *)
(***************************************************************************)

(* The session a login belongs to has been opened.                         *)
LEMMA LoginOpen ==
  ASSUME AccountInv, login.pc # "Idle"
  PROVE  /\ login.session \in live /\ login.session \in Used /\ login.session # None
         /\ opened[login.session] \in Files
  BY DEF AccountInv, LoginSound, TypeOK, Referenced, Used

LEMMA LoginKept == ASSUME AccountInv, [Next]_vars PROVE LoginSound'
<1>0. TypeOK /\ LoginSound
  BY DEF AccountInv
<1>1. CASE UNCHANGED login
  <2>1. login.pc # "Idle" => opened'[login.session] = opened[login.session]
    <3>1. CASE \E s \in Sessions : EnsureOpen(s)
      <4>1. PICK s \in Sessions : EnsureOpen(s)
        BY <3>1
      <4>2. s \notin Used /\ \A t \in Sessions : t # s => opened'[t] = opened[t]
        BY <4>1, Opens
      <4> QED
        BY <4>2, LoginOpen DEF Used
    <3>2. CASE UNCHANGED opened
      BY <3>2
    <3> QED
      BY <3>1, <3>2, OpeningWriters
  <2>2. login.pc = "Written" => contents' = contents
    BY OpeningWriters DEF LoginWrite
  <2> QED
    BY <1>0, <1>1, <2>1, <2>2 DEF LoginSound
<1>2. CASE LoginCapture
  <2>1. login' = [pc |-> "Asked", session |-> session, generation |-> generation, owner |-> NoOwner] /\ session # None
    BY <1>2 DEF LoginCapture
  <2> QED
    BY <2>1 DEF LoginSound
<1>3. CASE \E w \in Owners : LoginWrite(w)
  <2>1. PICK w \in Owners : LoginWrite(w)
    BY <1>3
  <2>2. /\ login' = [login EXCEPT !.pc = "Written", !.owner = w] /\ login.pc = "Asked"
        /\ contents' = [contents EXCEPT ![opened[login.session]] = w] /\ UNCHANGED opened
    BY <2>1 DEF LoginWrite, opening
  <2>3. contents'[opened[login.session]] = w
    BY <1>0, <2>2, LoginOpen DEF TypeOK
  <2>4. login'.pc = "Written" /\ login'.owner = w /\ login'.session = login.session
    BY <1>0, <2>2 DEF TypeOK
  <2> QED
    BY <2>2, <2>3, <2>4, LoginOpen DEF LoginSound
<1>4. CASE LoginFinish \/ LoginFails
  BY <1>4 DEF LoginFinish, LoginFails, NoLogin, LoginSound
<1> QED
  BY <1>1, <1>2, <1>3, <1>4, CallWriters

LEMMA GuardKept == ASSUME AccountInv, [Next]_vars PROVE GuardSound'
<1>0. GuardSound /\ generation \in Nat
  BY AccountAssumption DEF AccountAssumption, AccountInv, TypeOK
<1>1. guard.generation \in Nat
  BY AccountAssumption DEF AccountAssumption, AccountInv, TypeOK, NoGuard
<1>2. CASE Suspend
  <2>1. generation' = generation + 1 /\ guard' = guard /\ (ended' => guard # NoGuard)
    BY <1>2 DEF Suspend
  <2> QED
    BY <1>0, <1>1, <2>1 DEF GuardSound
<1>3. CASE OpenGuard
  <2>1. /\ guard = NoGuard /\ guard'.generation = generation
        /\ UNCHANGED <<generation, ended>>
    BY <1>3 DEF OpenGuard, lifecycle
  <2>2. ~ended
    BY <1>0, <2>1 DEF GuardSound
  <2> QED
    BY <1>0, <2>1, <2>2 DEF GuardSound
<1>4. CASE UNCHANGED <<generation, ended, guard>>
  BY <1>0, <1>4 DEF GuardSound
<1> QED
  BY <1>2, <1>3, <1>4, LifecycleWriters

LEMMA SignedOutFileKept == ASSUME AccountInv, [Next]_vars PROVE SignedOutFile'
<1>0. TypeOK /\ SignedOutFile /\ Numbered
  BY DEF AccountInv
<1> SUFFICES ASSUME signed_out', logout' = "Idle", ~leftover', file' # None
             PROVE  contents'[file'] = NoOwner
  BY DEF SignedOutFile
<1>1. ~Suspend
  BY DEF Suspend
<1>2. ~\E w \in Owners : LoginWrite(w)
  BY DEF LoginWrite
<1>3. signed_out /\ contents' = contents
  BY <1>1, <1>2, LifecycleWriters, OpeningWriters
<1>4. ~LogoutRemove
  BY DEF LogoutRemove
<1>5. logout = "Idle" /\ ~leftover
  <2>1. (UNCHANGED logout) /\ (UNCHANGED leftover)
    BY <1>1, <1>4, LifecycleWriters
  <2> QED
    BY <2>1
<1>6. CASE \E s \in Sessions : EnsureOpen(s)
  <2>1. PICK s \in Sessions : EnsureOpen(s)
    BY <1>6
  <2>2. file' \in Files /\ IF file = None THEN file' = NewFile /\ file' \notin OpenedFiles ELSE file' = file
    BY <2>1, Opens
  <2> QED
    BY <1>0, <1>3, <1>5, <2>2 DEF SignedOutFile, Numbered
<1>7. CASE UNCHANGED file
  BY <1>0, <1>3, <1>5, <1>7 DEF SignedOutFile
<1>8. CASE EnsureQuarantine
  BY <1>0, <1>3, <1>5, <1>8 DEF EnsureQuarantine, SignedOutFile
<1> QED
  BY <1>4, <1>6, <1>7, <1>8, OpeningWriters

(* Of the invariant these parts say what was promised.                     *)
LEMMA GuardsEndHere == ASSUME GuardSound, generation \in Nat, guard.generation \in Nat PROVE GuardsEnd
  BY DEF GuardsEnd, GuardSound, Valid

LEMMA SignedOutHere == ASSUME SignedOutFile, RegistrySound PROVE SignedOutStays
<1> SUFFICES ASSUME signed_out, logout = "Idle", ~leftover PROVE CurrentOwner = NoOwner
  BY DEF SignedOutStays
<1>1. file # None => contents[file] = NoOwner
  BY DEF SignedOutFile
<1>2. SameFile => opened[sessions.session] = file
  BY DEF SameFile, RegistrySound
<1>3. SameFile => file # None
  BY DEF SameFile
<1> QED
  BY <1>1, <1>2, <1>3 DEF CurrentOwner

LEMMA AccountInit == Init => AccountInv
<1> SUFFICES ASSUME Init PROVE AccountInv
  OBVIOUS
<1>1. /\ generation = 0 /\ file = None /\ contents = [f \in Files |-> NoOwner] /\ sessions = NoEntry
      /\ opened = [s \in Sessions |-> None] /\ born = [s \in Sessions |-> 0] /\ live = {}
      /\ client = None /\ session = None /\ ensure = NoEnsure /\ logout = "Idle" /\ login = NoLogin
      /\ guard = NoGuard /\ connecting = FALSE /\ reconnect = FALSE
  BY DEF Init
<1>2. signing_out = FALSE /\ api_id = FALSE /\ ended = FALSE /\ signed_out = FALSE /\ leftover = FALSE
  BY DEF Init
<1>3. 0 \in 0..MaxGeneration
  BY AccountAssumption DEF AccountAssumption
<1>4. Used = {} /\ OpenedFiles = {}
  BY <1>1 DEF Used, OpenedFiles
<1>5. TypeEnsure /\ TypeLogin
  BY <1>1, <1>3 DEF TypeEnsure, TypeLogin, NoEnsure, NoLogin, Unopened
<1>6. TypeOpening
  BY <1>1, <1>3, <1>4 DEF TypeOpening, Referenced, NoEnsure, NoLogin
<1>7. TypeRest
  BY <1>1, <1>2, <1>3 DEF TypeRest
<1>8. Numbered
  <2>1. Cardinality({}) = 0 /\ 1..0 = {}
    BY FS_EmptySet
  <2> QED
    BY <1>1, <1>4, <2>1 DEF Numbered
<1>9. EnsureSound /\ RegistrySound /\ LoginSound /\ OneWriter
  BY <1>1 DEF EnsureSound, RegistrySound, LoginSound, OneWriter, NoEnsure, NoEntry, NoLogin, Holding
<1>10. GuardSound /\ SignedOutFile /\ GuardsEnd
  BY <1>1, <1>2 DEF GuardSound, SignedOutFile, GuardsEnd, NoGuard
<1> QED
  BY <1>5, <1>6, <1>7, <1>8, <1>9, <1>10, TypeParts, SignedOutHere DEF AccountInv

(***************************************************************************)
(* AccountInv: a guard handed out before a sign-out is never valid again,  *)
(* connections of one generation share one session per file, and after a   *)
(* sign-out nobody is signed in until a login is confirmed                 *)
(* (workspace/account.rs, commands/auth.rs).                               *)
(***************************************************************************)
THEOREM AccountInvariant == Spec => []AccountInv
<1>1. Init => AccountInv
  BY AccountInit
<1>2. AccountInv /\ [Next]_vars => AccountInv'
  <2> SUFFICES ASSUME AccountInv, [Next]_vars PROVE AccountInv'
    OBVIOUS
  <2>1. TypeEnsure' /\ TypeLogin' /\ TypeOpening' /\ TypeRest'
    BY EnsureTyped, LoginTyped, OpeningTyped, RestTyped
  <2>2. TypeOK'
    BY <2>1, TypeParts, PTL
  <2>3. Numbered' /\ EnsureSound' /\ RegistrySound' /\ OneWriter' /\ LoginSound' /\ GuardSound' /\ SignedOutFile'
    BY NumberedKept, EnsureKept, RegistryKept, OneWriterKept, LoginKept, GuardKept, SignedOutFileKept
  <2>4. GuardsEnd'
    <3>1. generation' \in Nat /\ guard'.generation \in Nat
      BY <2>2, AccountAssumption DEF AccountAssumption, TypeOK, NoGuard
    <3> QED
      BY <2>3, <3>1 DEF GuardsEnd, GuardSound, Valid
  <2>5. SignedOutStays'
    BY <2>3, SignedOutHere, PTL
  <2> QED
    BY <2>2, <2>3, <2>4, <2>5 DEF AccountInv
<1> QED
  BY <1>1, <1>2, PTL DEF Spec

(***************************************************************************)
(* LoginOpensOwnWorkspace: a login that completes opens the workspace of   *)
(* the account Telegram confirmed, and no other (complete_in).             *)
(***************************************************************************)
THEOREM LoginOpensOwn == Spec => LoginOpensOwnWorkspace
<1> DEFINE A == login.pc = "Written" /\ login'.pc = "Idle" /\ signing_out /\ ~signing_out'
                  => CurrentOwner' = login.owner
<1>1. AccountInv /\ [Next]_vars => A
  <2> SUFFICES ASSUME AccountInv, [Next]_vars, login.pc = "Written", login'.pc = "Idle",
                      signing_out, ~signing_out'
               PROVE  CurrentOwner' = login.owner
    BY DEF A
  <2>1. ~Connect /\ ~Suspend
    BY DEF Connect, Suspend
  <2>2. LoginFinish
    BY <2>1, LifecycleWriters
  <2>3. /\ LoginValid(login)
        /\ UNCHANGED <<generation, file, contents, sessions, opened, live>>
    BY <2>2 DEF LoginFinish, files, opening
  <2>4. sessions.session = login.session /\ sessions.generation = generation /\ sessions.ready /\ SameFile
    BY <2>3 DEF LoginValid
  <2>5. login.session \in live /\ login.session # None
    BY LoginOpen
  <2>6. Registered' /\ SameFile' /\ file' # None
    BY <2>3, <2>4, <2>5 DEF Registered, SameFile
  <2>7. CurrentOwner' = contents[opened[login.session]]
    BY <2>3, <2>4, <2>6 DEF CurrentOwner
  <2> QED
    BY <2>7 DEF AccountInv, LoginSound
<1>2. AccountInv /\ [Next]_vars => [A]_vars
  BY <1>1
<1> QED
  BY AccountInvariant, <1>2, PTL DEF Spec, LoginOpensOwnWorkspace

=============================================================================
