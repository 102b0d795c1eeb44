---------------------------- MODULE LoginProofs ----------------------------
(* The safety invariants of Login, proved for every value of its constants. *)
EXTENDS Login, TLAPS

\* Emitting a signal to any number of connections queues well-formed events.
LEMMA EmitType ==
    ASSUME NEW S, NEW queue \in Seq(S), NEW n \in Nat, NEW event \in S
    PROVE  Emit(queue, n, event) \in Seq(S)
<1>1. [i \in 1..n |-> event] \in Seq(S)
  OBVIOUS
<1>. QED  BY <1>1 DEF Emit

\* Counting a connection keeps the count a positive natural number.
LEMMA ConnectedType ==
    ASSUME NEW n \in Nat
    PROVE  Connected(n) \in Nat /\ Connected(n) > 0
BY LoginAssumption DEF Connected

\* Taking an event leaves a queue of the same kind of events.
LEMMA TailType ==
    ASSUME NEW S, NEW queue \in Seq(S), queue # <<>>
    PROVE  Head(queue) \in S /\ Tail(queue) \in Seq(S)
OBVIOUS

\* The events the code queues are well formed, and so are the arguments it reads.
LEMMA Slots ==
    /\ \A e \in LoginSlot : e[1] = "TokenReceived" => e[2] \in Poller
    /\ \A e \in LoginSlot : e[1] = "PollingError" => e[2] \in EResult
    /\ \A e \in MainSlot : e[1] = "startThread" => e[2] \in Poller
    /\ \A p \in Poller : <<"TokenReceived", p>> \in LoginSlot /\ <<"startThread", p>> \in MainSlot
    /\ \A r \in EResult : <<"PollingError", r>> \in LoginSlot /\ <<"loginFailed", r>> \in MainSlot
    /\ \A s \in {"StartGeneratingQRCodes", "StartLogonWithCredentials", "CancelLogin",
                 "steamServerConnected", "steamServerConnectFailure"} : <<s, "none">> \in LoginSlot
    /\ \A s \in {"secondFactorNeeded", "loginSucceeded", "appLoginFailed", "postLogonState"} :
         <<s, "none">> \in MainSlot
    /\ "QR" \in Poller /\ "Credentials" \in Poller /\ "other" \in EResult
BY DEF LoginSlot, MainSlot, Poller, EResult

\* Posting one of these events keeps the queue of the main thread well formed.
LEMMA PostType ==
    ASSUME NEW queue \in Seq(MainSlot)
    PROVE  /\ \A r \in EResult : Append(queue, <<"loginFailed", r>>) \in Seq(MainSlot)
           /\ Append(queue, <<"loginFailed", "other">>) \in Seq(MainSlot)
           /\ \A p \in Poller : Append(queue, <<"startThread", p>>) \in Seq(MainSlot)
           /\ Append(queue, <<"startThread", "QR">>) \in Seq(MainSlot)
           /\ Append(queue, <<"startThread", "Credentials">>) \in Seq(MainSlot)
           /\ \A s \in {"secondFactorNeeded", "loginSucceeded", "appLoginFailed", "postLogonState"} :
                Append(queue, <<s, "none">>) \in Seq(MainSlot)
           /\ queue \o << <<"secondFactorNeeded", "none">> >> \in Seq(MainSlot)
<1>1. \A e \in MainSlot : Append(queue, e) \in Seq(MainSlot) /\ queue \o <<e>> \in Seq(MainSlot)
  OBVIOUS
<1>. QED  BY <1>1, Slots

\* The slots run with the queue's own events.
LEMMA TakeType ==
    ASSUME TypeOK, NEW slot, Take(slot)
    PROVE  Head(loginQ) \in LoginSlot /\ loginQ' \in Seq(LoginSlot)
BY TailType DEF TypeOK, Take

LEMMA HandleType ==
    ASSUME TypeOK, NEW slot, Handle(slot)
    PROVE  Head(mainQ) \in MainSlot /\ mainQ' \in Seq(MainSlot)
BY TailType DEF TypeOK, Handle

\* StopPolling and LogOn keep the types of what they change.
LEMMA StopPollingType ==
    ASSUME PollerType, NEW ps, poller' = StopPolling(ps)
    PROVE  PollerType'
BY DEF PollerType, StopPolling

LEMMA LogOnType ==
    ASSUME SteamType, NEW how \in Poller \cup {"cached"}, LogOn(how)
    PROVE  SteamType'
BY ConnectedType DEF SteamType, LogOn, Outstanding

-----------------------------------------------------------------------------
LEMMA TypeInit == Init => TypeOK
BY DEF Init, TypeOK, ThreadType, PollerType, UIType, SteamType,
       LoginSlot, IdlePoller, Poller, Outstanding

\* A step of the LoginThread keeps the types.
LEMMA TypeLoginThread ==
    ASSUME TypeOK, LoginThreadStep
    PROVE  TypeOK'
<1>1. CASE StartGeneratingQRCodes
  <2>1. Head(loginQ) \in LoginSlot /\ loginQ' \in Seq(LoginSlot)
    BY <1>1, TakeType DEF StartGeneratingQRCodes
  <2>2. mainQ' \in Seq(MainSlot)
    BY <1>1, PostType DEF TypeOK, StartGeneratingQRCodes
  <2>3. ThreadType'
    BY <1>1, Slots DEF TypeOK, ThreadType, StartGeneratingQRCodes
  <2>4. PollerType'
    BY <1>1 DEF TypeOK, PollerType, StartGeneratingQRCodes
  <2>5. SteamType'
    BY <1>1 DEF TypeOK, SteamType, StartGeneratingQRCodes
  <2>6. UIType'
    BY <1>1 DEF TypeOK, UIType, StartGeneratingQRCodes
  <2>. QED  BY <2>1, <2>2, <2>3, <2>4, <2>5, <2>6 DEF TypeOK
<1>2. CASE QRSessionBegun
  <2>1. loginQ' \in Seq(LoginSlot)
    BY <1>2 DEF TypeOK, QRSessionBegun
  <2>2. mainQ' \in Seq(MainSlot)
    BY <1>2, PostType DEF TypeOK, QRSessionBegun
  <2>3. ThreadType'
    BY <1>2, Slots DEF TypeOK, ThreadType, QRSessionBegun
  <2>4. PollerType'
    BY <1>2, Slots, ConnectedType DEF TypeOK, ThreadType, PollerType, QRSessionBegun
  <2>5. SteamType'
    BY <1>2 DEF TypeOK, SteamType, QRSessionBegun
  <2>6. UIType'
    BY <1>2 DEF TypeOK, UIType, QRSessionBegun
  <2>. QED  BY <2>1, <2>2, <2>3, <2>4, <2>5, <2>6 DEF TypeOK
<1>3. CASE RefuseLogon
  <2>1. Head(loginQ) \in LoginSlot /\ loginQ' \in Seq(LoginSlot)
    BY <1>3, TakeType DEF RefuseLogon
  <2>2. mainQ' \in Seq(MainSlot)
    BY <1>3, PostType DEF TypeOK, RefuseLogon
  <2>3. ThreadType'
    BY <1>3, Slots DEF TypeOK, ThreadType, RefuseLogon
  <2>4. PollerType'
    BY <1>3 DEF TypeOK, PollerType, RefuseLogon
  <2>5. SteamType'
    BY <1>3 DEF TypeOK, SteamType, RefuseLogon
  <2>6. UIType'
    BY <1>3 DEF TypeOK, UIType, RefuseLogon
  <2>. QED  BY <2>1, <2>2, <2>3, <2>4, <2>5, <2>6 DEF TypeOK
<1>4. CASE StartLogonWithCredentials
  <2>1. Head(loginQ) \in LoginSlot /\ loginQ' \in Seq(LoginSlot)
    BY <1>4, TakeType DEF StartLogonWithCredentials
  <2>2. mainQ' \in Seq(MainSlot)
    BY <1>4, PostType DEF TypeOK, StartLogonWithCredentials
  <2>3. ThreadType'
    BY <1>4, Slots DEF TypeOK, ThreadType, StartLogonWithCredentials
  <2>4. PollerType'
    BY <1>4 DEF TypeOK, PollerType, StartLogonWithCredentials
  <2>5. SteamType'
    BY <1>4 DEF TypeOK, SteamType, StartLogonWithCredentials
  <2>6. UIType'
    BY <1>4 DEF TypeOK, UIType, StartLogonWithCredentials
  <2>. QED  BY <2>1, <2>2, <2>3, <2>4, <2>5, <2>6 DEF TypeOK
<1>5. CASE LogOnWithCachedCredentials
  <2>1. loginQ' \in Seq(LoginSlot)
    BY <1>5 DEF TypeOK, LogOnWithCachedCredentials
  <2>2. mainQ' \in Seq(MainSlot)
    BY <1>5, PostType DEF TypeOK, LogOnWithCachedCredentials
  <2>3. ThreadType'
    BY <1>5, Slots DEF TypeOK, ThreadType, LogOnWithCachedCredentials
  <2>4. PollerType'
    BY <1>5, StopPollingType DEF TypeOK, LogOnWithCachedCredentials
  <2>5. SteamType'
    BY <1>5, Slots, LogOnType DEF TypeOK, LogOnWithCachedCredentials
  <2>6. UIType'
    BY <1>5 DEF TypeOK, UIType, LogOnWithCachedCredentials
  <2>. QED  BY <2>1, <2>2, <2>3, <2>4, <2>5, <2>6 DEF TypeOK
<1>6. CASE PublicKeyFailed
  <2>1. loginQ' \in Seq(LoginSlot)
    BY <1>6 DEF TypeOK, PublicKeyFailed
  <2>2. mainQ' \in Seq(MainSlot)
    BY <1>6, PostType DEF TypeOK, PublicKeyFailed
  <2>3. ThreadType'
    BY <1>6, Slots DEF TypeOK, ThreadType, PublicKeyFailed
  <2>4. PollerType'
    BY <1>6 DEF TypeOK, PollerType, PublicKeyFailed
  <2>5. SteamType'
    BY <1>6 DEF TypeOK, SteamType, PublicKeyFailed
  <2>6. UIType'
    BY <1>6 DEF TypeOK, UIType, PublicKeyFailed
  <2>. QED  BY <2>1, <2>2, <2>3, <2>4, <2>5, <2>6 DEF TypeOK
<1>7. CASE CredentialsRejected
  <2>1. loginQ' \in Seq(LoginSlot)
    BY <1>7 DEF TypeOK, CredentialsRejected
  <2>2. mainQ' \in Seq(MainSlot)
    BY <1>7, PostType DEF TypeOK, CredentialsRejected
  <2>3. ThreadType'
    BY <1>7, Slots DEF TypeOK, ThreadType, CredentialsRejected
  <2>4. PollerType'
    BY <1>7 DEF TypeOK, PollerType, CredentialsRejected
  <2>5. SteamType'
    BY <1>7 DEF TypeOK, SteamType, CredentialsRejected
  <2>6. UIType'
    BY <1>7 DEF TypeOK, UIType, CredentialsRejected
  <2>. QED  BY <2>1, <2>2, <2>3, <2>4, <2>5, <2>6 DEF TypeOK
<1>8. CASE CredentialsReplyLost
  <2>1. loginQ' \in Seq(LoginSlot)
    BY <1>8 DEF TypeOK, CredentialsReplyLost
  <2>2. mainQ' \in Seq(MainSlot)
    BY <1>8, PostType DEF TypeOK, CredentialsReplyLost
  <2>3. ThreadType'
    BY <1>8, Slots DEF TypeOK, ThreadType, CredentialsReplyLost
  <2>4. PollerType'
    BY <1>8 DEF TypeOK, PollerType, CredentialsReplyLost
  <2>5. SteamType'
    BY <1>8 DEF TypeOK, SteamType, CredentialsReplyLost
  <2>6. UIType'
    BY <1>8 DEF TypeOK, UIType, CredentialsReplyLost
  <2>. QED  BY <2>1, <2>2, <2>3, <2>4, <2>5, <2>6 DEF TypeOK
<1>9. CASE CredentialsSessionBegun
  <2>1. loginQ' \in Seq(LoginSlot)
    BY <1>9 DEF TypeOK, CredentialsSessionBegun
  <2>2. mainQ' \in Seq(MainSlot)
    <3>1. PICK confirmations \in {<<>>, << <<"secondFactorNeeded", "none">> >>} :
            mainQ' = Append(mainQ \o confirmations, <<"startThread", "Credentials">>)
      BY <1>9 DEF CredentialsSessionBegun
    <3>2. mainQ \o confirmations \in Seq(MainSlot)
      <4>1. CASE confirmations = <<>>
        BY <4>1 DEF TypeOK
      <4>2. CASE confirmations = << <<"secondFactorNeeded", "none">> >>
        BY <4>2, PostType DEF TypeOK
      <4>. QED  BY <4>1, <4>2
    <3>. QED  BY <3>1, <3>2, PostType
  <2>3. ThreadType'
    BY <1>9, Slots DEF TypeOK, ThreadType, CredentialsSessionBegun
  <2>4. PollerType'
    BY <1>9, Slots, ConnectedType DEF TypeOK, ThreadType, PollerType, CredentialsSessionBegun
  <2>5. SteamType'
    BY <1>9 DEF TypeOK, SteamType, CredentialsSessionBegun
  <2>6. UIType'
    BY <1>9 DEF TypeOK, UIType, CredentialsSessionBegun
  <2>. QED  BY <2>1, <2>2, <2>3, <2>4, <2>5, <2>6 DEF TypeOK
<1>10. CASE SetInterval
  <2>1. loginQ' \in Seq(LoginSlot)
    BY <1>10 DEF TypeOK, SetInterval
  <2>2. mainQ' \in Seq(MainSlot)
    BY <1>10, PostType DEF TypeOK, SetInterval
  <2>3. ThreadType'
    BY <1>10, Slots DEF TypeOK, ThreadType, SetInterval
  <2>4. PollerType'
    <3>1. PICK job \in Poller : thread.job = job
      BY DEF TypeOK, ThreadType
    <3>2. PICK interval \in {0, 1} : poller' = [poller EXCEPT ![job].interval = interval]
      BY <1>10, <3>1 DEF SetInterval
    <3>. QED  BY <3>2 DEF TypeOK, PollerType
  <2>5. SteamType'
    BY <1>10 DEF TypeOK, SteamType, SetInterval
  <2>6. UIType'
    BY <1>10 DEF TypeOK, UIType, SetInterval
  <2>. QED  BY <2>1, <2>2, <2>3, <2>4, <2>5, <2>6 DEF TypeOK
<1>11. CASE SetSession
  <2>1. loginQ' \in Seq(LoginSlot)
    BY <1>11 DEF TypeOK, SetSession
  <2>2. mainQ' \in Seq(MainSlot)
    BY <1>11, PostType DEF TypeOK, SetSession
  <2>3. ThreadType'
    BY <1>11, Slots DEF TypeOK, ThreadType, SetSession
  <2>4. PollerType'
    <3>1. PICK job \in Poller : thread.job = job
      BY DEF TypeOK, ThreadType
    <3>2. thread.begun \in BOOLEAN /\ poller[job].polled \in {"none", "current", "old"}
      BY <3>1 DEF TypeOK, ThreadType, PollerType
    <3>3. PICK polled \in {"none", "current", "old"} :
            poller' = [poller EXCEPT ![job].session = thread.begun, ![job].polled = polled]
      BY <1>11, <3>1, <3>2 DEF TypeOK, PollerType, SetSession
    <3>. QED  BY <3>2, <3>3 DEF TypeOK, PollerType
  <2>5. SteamType'
    BY <1>11 DEF TypeOK, SteamType, SetSession
  <2>6. UIType'
    BY <1>11 DEF TypeOK, UIType, SetSession
  <2>. QED  BY <2>1, <2>2, <2>3, <2>4, <2>5, <2>6 DEF TypeOK
<1>12. CASE TokenReceived
  <2>1. Head(loginQ) \in LoginSlot /\ loginQ' \in Seq(LoginSlot)
    BY <1>12, TakeType DEF TokenReceived
  <2>2. mainQ' \in Seq(MainSlot)
    BY <1>12, PostType DEF TypeOK, TokenReceived
  <2>3. ThreadType'
    BY <1>12, Slots DEF TypeOK, ThreadType, TokenReceived
  <2>4. PollerType'
    BY <1>12, StopPollingType DEF TypeOK, TokenReceived
  <2>5. SteamType'
    BY <1>12, <2>1, Slots, LogOnType DEF TypeOK, TokenReceived, Take
  <2>6. UIType'
    BY <1>12 DEF TypeOK, UIType, TokenReceived
  <2>. QED  BY <2>1, <2>2, <2>3, <2>4, <2>5, <2>6 DEF TypeOK
<1>13. CASE PollingError
  <2>1. Head(loginQ) \in LoginSlot /\ loginQ' \in Seq(LoginSlot)
    BY <1>13, TakeType DEF PollingError
  <2>2. mainQ' \in Seq(MainSlot)
    <3>1. Head(loginQ)[2] \in EResult
      BY <1>13, <2>1, Slots DEF PollingError, Take
    <3>. QED  BY <1>13, <3>1, PostType DEF TypeOK, PollingError
  <2>3. ThreadType'
    BY <1>13, Slots DEF TypeOK, ThreadType, PollingError
  <2>4. PollerType'
    BY <1>13 DEF TypeOK, PollerType, PollingError
  <2>5. SteamType'
    BY <1>13 DEF TypeOK, SteamType, PollingError
  <2>6. UIType'
    BY <1>13 DEF TypeOK, UIType, PollingError
  <2>. QED  BY <2>1, <2>2, <2>3, <2>4, <2>5, <2>6 DEF TypeOK
<1>14. CASE CancelLogin
  <2>1. Head(loginQ) \in LoginSlot /\ loginQ' \in Seq(LoginSlot)
    BY <1>14, TakeType DEF CancelLogin
  <2>2. mainQ' \in Seq(MainSlot)
    BY <1>14, PostType DEF TypeOK, CancelLogin
  <2>3. ThreadType'
    BY <1>14, Slots DEF TypeOK, ThreadType, CancelLogin
  <2>4. PollerType'
    BY <1>14, StopPollingType DEF TypeOK, PollerType, CancelLogin
  <2>5. SteamType'
    BY <1>14 DEF TypeOK, SteamType, CancelLogin
  <2>6. UIType'
    BY <1>14 DEF TypeOK, UIType, CancelLogin
  <2>. QED  BY <2>1, <2>2, <2>3, <2>4, <2>5, <2>6 DEF TypeOK
<1>15. CASE steamServerConnected
  <2>1. Head(loginQ) \in LoginSlot /\ loginQ' \in Seq(LoginSlot)
    BY <1>15, TakeType DEF steamServerConnected
  <2>2. mainQ' \in Seq(MainSlot)
    BY <1>15, PostType DEF TypeOK, steamServerConnected
  <2>3. ThreadType'
    BY <1>15, Slots DEF TypeOK, ThreadType, steamServerConnected
  <2>4. PollerType'
    BY <1>15 DEF TypeOK, PollerType, steamServerConnected
  <2>5. SteamType'
    BY <1>15 DEF TypeOK, SteamType, steamServerConnected
  <2>6. UIType'
    BY <1>15 DEF TypeOK, UIType, steamServerConnected
  <2>. QED  BY <2>1, <2>2, <2>3, <2>4, <2>5, <2>6 DEF TypeOK
<1>16. CASE steamServerConnectFailure
  <2>1. Head(loginQ) \in LoginSlot /\ loginQ' \in Seq(LoginSlot)
    BY <1>16, TakeType DEF steamServerConnectFailure
  <2>2. mainQ' \in Seq(MainSlot)
    BY <1>16, PostType DEF TypeOK, steamServerConnectFailure
  <2>3. ThreadType'
    BY <1>16, Slots DEF TypeOK, ThreadType, steamServerConnectFailure
  <2>4. PollerType'
    BY <1>16 DEF TypeOK, PollerType, steamServerConnectFailure
  <2>5. SteamType'
    BY <1>16 DEF TypeOK, SteamType, steamServerConnectFailure
  <2>6. UIType'
    BY <1>16 DEF TypeOK, UIType, steamServerConnectFailure
  <2>. QED  BY <2>1, <2>2, <2>3, <2>4, <2>5, <2>6 DEF TypeOK
<1>. QED
  BY <1>1, <1>2, <1>3, <1>4, <1>5, <1>6, <1>7, <1>8, <1>9, <1>10, <1>11, <1>12, <1>13, <1>14, <1>15, <1>16 DEF LoginThreadStep

\* The counters of the user interface stay natural numbers.
LEMMA UICounters ==
    ASSUME UIType
    PROVE  /\ ui.attempts + 1 \in Nat /\ ui.qrs + 1 \in Nat
           /\ ui.oldDialogs \in Nat /\ ui.oldDialogs + 1 \in Nat
           /\ ui.oldDialogs > 0 => ui.oldDialogs - 1 \in Nat
           /\ ui.mainWindows + 1 \in Nat
           /\ ui.mainWindows > 0 => ui.mainWindows - 1 \in Nat
BY DEF UIType

\* A step of a polling job keeps the types.
LEMMA TypePoller ==
    ASSUME TypeOK, NEW p \in Poller, PollerStep(p)
    PROVE  TypeOK'
<1>1. UNCHANGED <<thread, mainQ, ui, steam>>
  BY DEF PollerStep, PollerStarted, PollerBegins, PollPending, NewClientIdTooLate, PollAnswered,
         PollToken, PollFailed, PollerEnded
<1>2. loginQ' \in Seq(LoginSlot)
  <2>1. poller[p].conns \in Nat
    BY DEF TypeOK, PollerType
  <2>2. CASE PollToken(p)
    <3>1. <<"TokenReceived", p>> \in LoginSlot
      BY Slots
    <3>. QED  BY <2>1, <2>2, <3>1, EmitType DEF TypeOK, PollToken
  <2>3. CASE PollFailed(p)
    <3>1. PICK result \in EResult :
            loginQ' = Emit(loginQ, poller[p].conns, <<"PollingError", result>>)
      BY <2>3 DEF PollFailed
    <3>2. <<"PollingError", result>> \in LoginSlot
      BY Slots
    <3>. QED  BY <2>1, <3>1, <3>2, EmitType DEF TypeOK
  <2>4. CASE UNCHANGED loginQ
    BY <2>4 DEF TypeOK
  <2>. QED
    BY <2>2, <2>3, <2>4 DEF PollerStep, PollerStarted, PollerBegins, PollPending, NewClientIdTooLate,
                            PollAnswered, PollerEnded
<1>3. PollerType'
  <2>1. PollerType
    BY DEF TypeOK
  <2>2. CASE poller' = Polling(p)
    BY <2>1, <2>2 DEF PollerType, Polling
  <2>3. CASE poller' # Polling(p)
    <3>1. \/ poller' = [poller EXCEPT ![p].run = "none"]
          \/ poller' = [poller EXCEPT ![p].run = "begin"]
          \/ poller' = [poller EXCEPT ![p].session = FALSE]
          \/ poller' = [poller EXCEPT ![p].run = "clear"]
          \/ poller' = [poller EXCEPT ![p].run = "none", ![p].interval = 0]
      BY <2>3 DEF PollerStep, PollerStarted, PollerBegins, PollPending, NewClientIdTooLate, PollAnswered,
                  PollToken, PollFailed, PollerEnded
    <3>2. CASE poller' = [poller EXCEPT ![p].run = "none"]
      BY <2>1, <3>2 DEF PollerType
    <3>3. CASE poller' = [poller EXCEPT ![p].session = FALSE]
      BY <2>1, <3>3 DEF PollerType
    <3>4. CASE poller' = [poller EXCEPT ![p].run = "clear"]
      BY <2>1, <3>4 DEF PollerType
    <3>5. CASE poller' = [poller EXCEPT ![p].run = "none", ![p].interval = 0]
      BY <2>1, <3>5 DEF PollerType
    <3>6. CASE poller' = [poller EXCEPT ![p].run = "begin"]
      BY <2>1, <3>6 DEF PollerType
    <3>. QED  BY <3>1, <3>2, <3>3, <3>4, <3>5, <3>6
  <2>. QED  BY <2>2, <2>3
<1>. QED  BY <1>1, <1>2, <1>3 DEF TypeOK, ThreadType, UIType, SteamType

\* A step of steamclient or the CallbackThread keeps the types.
LEMMA TypeSteam ==
    ASSUME TypeOK, SteamStep
    PROVE  TypeOK'
<1>1. UNCHANGED <<thread, poller, ui>>
  BY DEF SteamStep, LogOnSucceeds, LogOnFails, Reconnected, ConnectionFailed, CallbackThreadReturns, PostLogonState
<1>2. loginQ' \in Seq(LoginSlot)
  <2>1. steam.conns \in Nat
    BY DEF TypeOK, SteamType
  <2>2. /\ <<"steamServerConnected", "none">> \in LoginSlot
        /\ <<"steamServerConnectFailure", "none">> \in LoginSlot
    BY Slots
  <2>3. CASE LogOnSucceeds \/ Reconnected
    BY <2>1, <2>2, <2>3, EmitType DEF TypeOK, LogOnSucceeds, Reconnected
  <2>4. CASE LogOnFails \/ ConnectionFailed
    BY <2>1, <2>2, <2>4, EmitType DEF TypeOK, LogOnFails, ConnectionFailed
  <2>5. CASE CallbackThreadReturns \/ PostLogonState
    BY <2>5 DEF TypeOK, CallbackThreadReturns, PostLogonState
  <2>. QED  BY <2>3, <2>4, <2>5 DEF SteamStep
<1>3. mainQ' \in Seq(MainSlot)
  BY PostType DEF TypeOK, SteamStep, LogOnSucceeds, LogOnFails, Reconnected,
                  ConnectionFailed, CallbackThreadReturns, PostLogonState
<1>4. SteamType'
  <2>1. steam.reports + 1 \in Nat
    BY DEF TypeOK, SteamType
  <2>. QED
    BY <2>1 DEF TypeOK, SteamType, Outstanding, SteamStep, LogOnSucceeds, LogOnFails,
                Reconnected, ConnectionFailed, CallbackThreadReturns, PostLogonState
<1>. QED  BY <1>1, <1>2, <1>3, <1>4 DEF TypeOK, ThreadType, PollerType, UIType

\* An event handled by the main thread keeps the types.
LEMMA TypeMainThread ==
    ASSUME TypeOK, MainThreadStep
    PROVE  TypeOK'
<1>1. UNCHANGED thread
  BY DEF MainThreadStep, startThread, secondFactorNeeded, loginFailed, loginSucceeded,
         appLoginFailed, postLogonState
<1>2. mainQ' \in Seq(MainSlot)
  BY HandleType DEF MainThreadStep, startThread, secondFactorNeeded, loginFailed, loginSucceeded,
                    appLoginFailed, postLogonState
<1>3. loginQ' \in Seq(LoginSlot)
  <2>1. Append(loginQ, <<"StartGeneratingQRCodes", "none">>) \in Seq(LoginSlot)
    BY Slots DEF TypeOK
  <2>. QED
    BY <2>1 DEF TypeOK, MainThreadStep, startThread, secondFactorNeeded, loginFailed,
                loginSucceeded, appLoginFailed, postLogonState, ShowLoginWindow, RequestQRCode
<1>4. PollerType'
  <2>1. CASE startThread
    <3>1. PICK p \in Poller :
            poller' = IF poller[p].run = "none" THEN [poller EXCEPT ![p].run = "wait"] ELSE poller
      BY <2>1, HandleType, Slots DEF startThread, Handle
    <3>. QED  BY <3>1 DEF TypeOK, PollerType
  <2>2. CASE UNCHANGED poller
    BY <2>2 DEF TypeOK, PollerType
  <2>. QED
    BY <2>1, <2>2 DEF MainThreadStep, secondFactorNeeded, loginFailed, loginSucceeded,
                      appLoginFailed, postLogonState
<1>5. UIType'
  <2>1. CASE secondFactorNeeded
    BY <2>1, UICounters DEF TypeOK, UIType, secondFactorNeeded
  <2>2. CASE loginFailed
    BY <2>2 DEF TypeOK, UIType, loginFailed
  <2>3. CASE loginSucceeded
    BY <2>3 DEF TypeOK, UIType, loginSucceeded
  <2>4. CASE appLoginFailed
    BY <2>4, UICounters DEF TypeOK, UIType, appLoginFailed
  <2>5. CASE postLogonState
    BY <2>5, UICounters DEF TypeOK, UIType, postLogonState
  <2>6. CASE startThread
    BY <2>6 DEF TypeOK, UIType, startThread
  <2>. QED  BY <2>1, <2>2, <2>3, <2>4, <2>5, <2>6 DEF MainThreadStep
<1>6. SteamType'
  BY DEF TypeOK, SteamType, MainThreadStep, startThread, secondFactorNeeded, loginFailed,
         loginSucceeded, appLoginFailed, postLogonState
<1>. QED  BY <1>1, <1>2, <1>3, <1>4, <1>5, <1>6 DEF TypeOK, ThreadType

\* What the user does keeps the types.
LEMMA TypeUser ==
    ASSUME TypeOK, UserStep
    PROVE  TypeOK'
<1>1. UNCHANGED <<thread, poller, mainQ>>
  BY DEF UserStep, StartLogin, CancelDialog, Escape, RegenerateQR, LogOut
<1>2. loginQ' \in Seq(LoginSlot)
  <2>1. \A s \in {"StartGeneratingQRCodes", "StartLogonWithCredentials", "CancelLogin"} :
          Append(loginQ, <<s, "none">>) \in Seq(LoginSlot)
    <3>1. \A s \in {"StartGeneratingQRCodes", "StartLogonWithCredentials", "CancelLogin"} :
            <<s, "none">> \in LoginSlot
      BY Slots
    <3>2. \A e \in LoginSlot : Append(loginQ, e) \in Seq(LoginSlot)
      BY DEF TypeOK
    <3>. QED  BY <3>1, <3>2
  <2>. QED
    BY <2>1 DEF TypeOK, UserStep, StartLogin, CancelDialog, Escape, RegenerateQR, LogOut,
                ShowLoginWindow, RequestQRCode
<1>3. UIType'
  <2>1. CASE StartLogin
    BY <2>1, UICounters DEF TypeOK, UIType, StartLogin
  <2>2. CASE CancelDialog
    BY <2>2, UICounters DEF TypeOK, UIType, CancelDialog
  <2>3. CASE Escape
    BY <2>3, UICounters DEF TypeOK, UIType, Escape
  <2>4. CASE RegenerateQR
    BY <2>4, UICounters DEF TypeOK, UIType, RegenerateQR
  <2>5. CASE LogOut
    BY <2>5, UICounters DEF TypeOK, UIType, LogOut
  <2>. QED  BY <2>1, <2>2, <2>3, <2>4, <2>5 DEF UserStep
<1>4. SteamType'
  BY DEF TypeOK, SteamType, Outstanding, UserStep, StartLogin, CancelDialog, Escape, RegenerateQR, LogOut
<1>. QED  BY <1>1, <1>2, <1>3, <1>4 DEF TypeOK, ThreadType, PollerType

\* The state of every thread, job, window and queue keeps its type, whatever
\* the bounds and whichever replies fail.
THEOREM TypeCorrect == Spec => []TypeOK
<1>1. Init => TypeOK
  BY TypeInit
<1>2. TypeOK /\ [Next]_vars => TypeOK'
  <2>1. TypeOK /\ Next => TypeOK'
    BY TypeLoginThread, TypePoller, TypeSteam, TypeMainThread, TypeUser DEF Next
  <2>2. TypeOK /\ UNCHANGED vars => TypeOK'
    BY DEF TypeOK, ThreadType, PollerType, UIType, SteamType, vars
  <2>. QED  BY <2>1, <2>2
<1>. QED  BY <1>1, <1>2, PTL DEF Spec

-----------------------------------------------------------------------------
\* NotStartedNotPolling speaks of the LoginThread between two slots.  Inside
\* StartLogonWithCredentials the flag is set before the poller is started, and the
\* poller is still stopped while the slot waits to learn whether it will be.
CredentialsPolling ==
    /\ poller["Credentials"].interval # 0 => thread.bIsLogonStarted
    /\ thread.pc = "beginQR" => thread.job = "QR"
    /\ thread.pc = "beginAuth" => thread.bIsLogonStarted /\ poller["Credentials"].interval = 0
    /\ thread.pc \in {"setInterval", "setSession"} /\ thread.job = "Credentials"
         => thread.bIsLogonStarted

\* A slot of the LoginThread never leaves the credentials poller polling
\* without a logon that is started.
LEMMA CredentialsPollingLoginThread ==
    ASSUME TypeOK, CredentialsPolling, LoginThreadStep
    PROVE  CredentialsPolling'
<1>. USE DEF TypeOK, ThreadType, PollerType, Poller
<1>1. CASE StartGeneratingQRCodes \/ RefuseLogon \/ StartLogonWithCredentials
  BY <1>1 DEF CredentialsPolling, StartGeneratingQRCodes, RefuseLogon, StartLogonWithCredentials, Take
<1>2. CASE QRSessionBegun
  BY <1>2 DEF CredentialsPolling, QRSessionBegun
<1>3. CASE CredentialsSessionBegun
  BY <1>3 DEF CredentialsPolling, CredentialsSessionBegun
<1>4. CASE LogOnWithCachedCredentials \/ TokenReceived
  <2>1. thread'.pc = "idle"
    BY <1>4 DEF LogOnWithCachedCredentials, TokenReceived, Take
  <2>2. poller'["Credentials"].interval = 0
    BY <1>4 DEF LogOnWithCachedCredentials, TokenReceived, StopPolling
  <2>. QED  BY <2>1, <2>2 DEF CredentialsPolling
<1>5. CASE PublicKeyFailed \/ PollingError
  BY <1>5 DEF CredentialsPolling, PublicKeyFailed, PollingError, Take
<1>6. CASE CredentialsRejected \/ CredentialsReplyLost
  BY <1>6 DEF CredentialsPolling, CredentialsRejected, CredentialsReplyLost
<1>7. CASE SetInterval
  BY <1>7 DEF CredentialsPolling, SetInterval
<1>8. CASE SetSession
  BY <1>8 DEF CredentialsPolling, SetSession
<1>9. CASE CancelLogin
  BY <1>9 DEF CredentialsPolling, CancelLogin, StopPolling, Take
<1>10. CASE steamServerConnected \/ steamServerConnectFailure
  BY <1>10 DEF CredentialsPolling, steamServerConnected, steamServerConnectFailure, Take
<1>. QED
  BY <1>1, <1>2, <1>3, <1>4, <1>5, <1>6, <1>7, <1>8, <1>9, <1>10 DEF LoginThreadStep

\* Nobody but the LoginThread sets the interval of a poller.
LEMMA CredentialsPollingOthers ==
    ASSUME TypeOK, CredentialsPolling, thread' = thread,
           poller'["Credentials"].interval \in {0, poller["Credentials"].interval}
    PROVE  CredentialsPolling'
BY DEF CredentialsPolling

LEMMA IntervalOthers ==
    ASSUME TypeOK, ~LoginThreadStep, Next
    PROVE  /\ thread' = thread
           /\ poller'["Credentials"].interval \in {0, poller["Credentials"].interval}
<1>1. CASE \E p \in Poller : PollerStep(p)
  <2>1. PICK p \in Poller : PollerStep(p)
    BY <1>1
  <2>. QED
    BY <2>1 DEF TypeOK, PollerType, Poller, Polling, PollerStep, PollerStarted, PollerBegins, PollPending,
                NewClientIdTooLate, PollAnswered, PollToken, PollFailed, PollerEnded
<1>2. CASE SteamStep
  BY <1>2 DEF SteamStep, LogOnSucceeds, LogOnFails, Reconnected, ConnectionFailed, CallbackThreadReturns, PostLogonState
<1>3. CASE startThread
  BY <1>3 DEF startThread, TypeOK, PollerType, Poller
<1>4. CASE MainThreadStep /\ ~startThread
  BY <1>4 DEF MainThreadStep, secondFactorNeeded, loginFailed, loginSucceeded, appLoginFailed,
              postLogonState
<1>5. CASE UserStep
  BY <1>5 DEF UserStep, StartLogin, CancelDialog, Escape, RegenerateQR, LogOut
<1>. QED  BY <1>1, <1>2, <1>3, <1>4, <1>5 DEF Next

\* Whenever no logon is started and the LoginThread is between two slots, the
\* credentials poller has been told to stop: CancelLogin, TokenReceived and the
\* use of cached credentials all stop it when they reset bIsLogonStarted.
THEOREM StoppedWithTheLogon == Spec => []NotStartedNotPolling
<1>1. Init => CredentialsPolling
  BY DEF Init, CredentialsPolling, IdlePoller, Poller
<1>2. TypeOK /\ CredentialsPolling /\ [Next]_vars => CredentialsPolling'
  <2>1. CASE LoginThreadStep
    BY <2>1, CredentialsPollingLoginThread
  <2>2. CASE ~LoginThreadStep /\ Next
    BY <2>2, IntervalOthers, CredentialsPollingOthers
  <2>3. CASE UNCHANGED vars
    BY <2>3 DEF CredentialsPolling, vars
  <2>. QED  BY <2>1, <2>2, <2>3
<1>3. CredentialsPolling => NotStartedNotPolling
  BY DEF CredentialsPolling, NotStartedNotPolling
<1>. QED  BY <1>1, <1>2, <1>3, TypeCorrect, PTL DEF Spec

-----------------------------------------------------------------------------
\* A MainWindow exists only after hasLogonCompleted, and whoever resets that
\* flag destroys the window.
WindowAfterLogon == OneMainWindow /\ (ui.mainWindows > 0 => ui.hasLogonCompleted)

\* There is at most one MainWindow, however often steamclient reports the end of
\* a logon and whenever the report of an earlier logon is handled.
THEOREM AtMostOneMainWindow == Spec => []OneMainWindow
<1>1. Init => WindowAfterLogon
  BY DEF Init, WindowAfterLogon, OneMainWindow
<1>2. TypeOK /\ WindowAfterLogon /\ [Next]_vars => WindowAfterLogon'
  <2>. SUFFICES ASSUME TypeOK, WindowAfterLogon, [Next]_vars
                PROVE  WindowAfterLogon'
    OBVIOUS
  <2>1. CASE postLogonState
    BY <2>1 DEF WindowAfterLogon, OneMainWindow, postLogonState, TypeOK, UIType
  <2>2. CASE LogOut
    BY <2>2 DEF WindowAfterLogon, OneMainWindow, LogOut, TypeOK, UIType
  <2>3. CASE ui'.mainWindows = ui.mainWindows /\ ui'.hasLogonCompleted = ui.hasLogonCompleted
    BY <2>3 DEF WindowAfterLogon, OneMainWindow
  <2>4. CASE LoginThreadStep
    BY <2>3, <2>4 DEF LoginThreadStep, StartGeneratingQRCodes, QRSessionBegun, RefuseLogon,
         StartLogonWithCredentials, LogOnWithCachedCredentials, PublicKeyFailed,
         CredentialsRejected, CredentialsReplyLost, CredentialsSessionBegun, SetInterval,
         SetSession, TokenReceived, PollingError, CancelLogin, steamServerConnected,
         steamServerConnectFailure
  <2>5. CASE \E p \in Poller : PollerStep(p)
    BY <2>3, <2>5 DEF PollerStep, PollerStarted, PollerBegins, PollPending, NewClientIdTooLate, PollAnswered,
                      PollToken, PollFailed, PollerEnded
  <2>6. CASE SteamStep
    BY <2>3, <2>6 DEF SteamStep, LogOnSucceeds, LogOnFails, Reconnected, ConnectionFailed, CallbackThreadReturns,
                      PostLogonState
  <2>7. CASE startThread \/ secondFactorNeeded \/ loginFailed \/ loginSucceeded \/ appLoginFailed
    BY <2>3, <2>7 DEF startThread, secondFactorNeeded, loginFailed, loginSucceeded,
                      appLoginFailed, TypeOK, UIType
  <2>8. CASE StartLogin \/ CancelDialog \/ Escape \/ RegenerateQR
    BY <2>3, <2>8 DEF StartLogin, CancelDialog, Escape, RegenerateQR, TypeOK, UIType
  <2>9. CASE UNCHANGED vars
    BY <2>3, <2>9 DEF vars
  <2>. QED
    BY <2>1, <2>2, <2>4, <2>5, <2>6, <2>7, <2>8, <2>9 DEF Next, MainThreadStep, UserStep
<1>3. WindowAfterLogon => OneMainWindow
  BY DEF WindowAfterLogon
<1>. QED  BY <1>1, <1>2, <1>3, TypeCorrect, PTL DEF Spec

-----------------------------------------------------------------------------
\* What happens to the events of a slot when another event is queued or taken.
LEMMA QueuedAppend ==
    ASSUME NEW S, NEW queue \in Seq(S), NEW event, NEW slot
    PROVE  Queued(Append(queue, event), slot) <=> Queued(queue, slot) \/ event[1] = slot
<1>1. Len(Append(queue, event)) = Len(queue) + 1
  OBVIOUS
<1>2. \A i \in 1..Len(queue) : Append(queue, event)[i] = queue[i]
  OBVIOUS
<1>3. Append(queue, event)[Len(queue) + 1] = event
  OBVIOUS
<1>4. Len(queue) \in Nat
  OBVIOUS
<1>. QED  BY <1>1, <1>2, <1>3, <1>4 DEF Queued

LEMMA QueuedTail ==
    ASSUME NEW S, NEW queue \in Seq(S), queue # <<>>, NEW slot
    PROVE  /\ Queued(Tail(queue), slot) => Queued(queue, slot)
           /\ Queued(queue, slot) /\ Head(queue)[1] # slot => Queued(Tail(queue), slot)
<1>1. Len(queue) \in Nat \ {0} /\ Len(Tail(queue)) = Len(queue) - 1
  OBVIOUS
<1>2. \A i \in 1..Len(Tail(queue)) : Tail(queue)[i] = queue[i + 1]
  OBVIOUS
<1>3. Head(queue) = queue[1]
  OBVIOUS
<1>4. Queued(Tail(queue), slot) => Queued(queue, slot)
  BY <1>1, <1>2 DEF Queued
<1>5. ASSUME Queued(queue, slot), Head(queue)[1] # slot
      PROVE  Queued(Tail(queue), slot)
  <2>1. PICK i \in 1..Len(queue) : queue[i][1] = slot
    BY <1>5 DEF Queued
  <2>2. i - 1 \in 1..Len(Tail(queue)) /\ Tail(queue)[i - 1] = queue[i]
    BY <1>1, <1>2, <1>3, <1>5, <2>1
  <2>. QED  BY <2>1, <2>2 DEF Queued
<1>. QED  BY <1>4, <1>5

LEMMA QueuedEmit ==
    ASSUME NEW S, NEW queue \in Seq(S), NEW n \in Nat, NEW event, NEW slot
    PROVE  /\ Queued(queue, slot) => Queued(Emit(queue, n, event), slot)
           /\ n > 0 /\ event[1] = slot => Queued(Emit(queue, n, event), slot)
<1>1. Len(Emit(queue, n, event)) = Len(queue) + n
  BY DEF Emit
<1>2. \A i \in 1..Len(queue) : Emit(queue, n, event)[i] = queue[i]
  BY DEF Emit
<1>3. n > 0 => Emit(queue, n, event)[Len(queue) + 1] = event
  BY DEF Emit
<1>4. Len(queue) \in Nat
  OBVIOUS
<1>. QED  BY <1>1, <1>2, <1>3, <1>4 DEF Queued

-----------------------------------------------------------------------------
\* LogOnIsHeard needs to know that Application disconnects from the callbacks
\* only once its own LogOn was answered, hence that no connection of an account
\* fails before; CachedFlagAwaitsAnswer, that the handlers stay connected from the
\* first LogOn of the LoginThread on.
Heard ==
    /\ LogOnIsHeard
    /\ steam.logon = "app" => ~steam.loggedOn
    /\ steam.logon = "app" => ~Queued(mainQ, "appLoginFailed")
    /\ thread.isCachedCredentialLogin => steam.conns > 0

\* LogOnIsHeard and what it needs survive a slot of the LoginThread: whatever
\* it queues for the main thread is no failure of Application's LogOn.
LEMMA HeardLoginThread ==
    ASSUME TypeOK, Heard, LoginThreadStep
    PROVE  Heard'
<1>. USE DEF TypeOK
<1>1. CASE LogOnWithCachedCredentials \/ TokenReceived
  <2>1. steam.conns \in Nat
    BY DEF SteamType
  <2>2. PICK how \in Poller \cup {"cached"} :
         steam' = [steam EXCEPT !.logon = how, !.conns = Connected(@)]
    BY <1>1, TakeType, Slots DEF LogOnWithCachedCredentials, TokenReceived, LogOn, Take
  <2>3. steam'.logon = how /\ steam'.conns > 0 /\ how # "app"
    BY <2>1, <2>2, ConnectedType DEF SteamType, Poller
  <2>. QED  BY <2>3 DEF Heard, LogOnIsHeard
<1>2. CASE ~(LogOnWithCachedCredentials \/ TokenReceived)
  <2>1. UNCHANGED steam
    BY <1>2 DEF LoginThreadStep, StartGeneratingQRCodes, QRSessionBegun, RefuseLogon,
         StartLogonWithCredentials, PublicKeyFailed, CredentialsRejected, CredentialsReplyLost,
         CredentialsSessionBegun, SetInterval, SetSession, PollingError, CancelLogin,
         steamServerConnected, steamServerConnectFailure
  <2>2. thread'.isCachedCredentialLogin => thread.isCachedCredentialLogin
    BY <1>2 DEF ThreadType, LoginThreadStep, StartGeneratingQRCodes, QRSessionBegun, RefuseLogon,
         StartLogonWithCredentials, PublicKeyFailed, CredentialsRejected, CredentialsReplyLost,
         CredentialsSessionBegun, SetInterval, SetSession, PollingError, CancelLogin,
         steamServerConnected, steamServerConnectFailure
  <2>3. Queued(mainQ', "appLoginFailed") => Queued(mainQ, "appLoginFailed")
    <3>1. CASE CredentialsSessionBegun
      <4>1. PICK confirmations \in {<<>>, << <<"secondFactorNeeded", "none">> >>} :
              mainQ' = Append(mainQ \o confirmations, <<"startThread", "Credentials">>)
        BY <3>1 DEF CredentialsSessionBegun
      <4>2. mainQ \o <<>> = mainQ
            /\ mainQ \o << <<"secondFactorNeeded", "none">> >>
                 = Append(mainQ, <<"secondFactorNeeded", "none">>)
        OBVIOUS
      <4>3. mainQ \o confirmations \in Seq(MainSlot)
        BY <4>2, PostType
      <4>4. Queued(mainQ \o confirmations, "appLoginFailed") => Queued(mainQ, "appLoginFailed")
        <5>1. Queued(Append(mainQ, <<"secondFactorNeeded", "none">>), "appLoginFailed")
                => Queued(mainQ, "appLoginFailed")
          BY QueuedAppend
        <5>. QED  BY <4>2, <5>1
      <4>5. Queued(Append(mainQ \o confirmations, <<"startThread", "Credentials">>), "appLoginFailed")
              => Queued(mainQ \o confirmations, "appLoginFailed")
        <5>1. \A queue \in Seq(MainSlot) :
                Queued(Append(queue, <<"startThread", "Credentials">>), "appLoginFailed")
                  => Queued(queue, "appLoginFailed")
          BY QueuedAppend
        <5>. QED  BY <4>3, <5>1
      <4>. QED  BY <4>1, <4>4, <4>5
    <3>2. CASE ~CredentialsSessionBegun
      <4>1. \/ mainQ' = mainQ
            \/ \E event : event[1] # "appLoginFailed" /\ mainQ' = Append(mainQ, event)
        BY <1>2, <3>2 DEF LoginThreadStep, StartGeneratingQRCodes, QRSessionBegun, RefuseLogon,
             StartLogonWithCredentials, PublicKeyFailed, CredentialsRejected,
             CredentialsReplyLost, SetInterval, SetSession, PollingError, CancelLogin,
             steamServerConnected, steamServerConnectFailure
      <4>. QED  BY <4>1, QueuedAppend
    <3>. QED  BY <3>1, <3>2
  <2>. QED  BY <2>1, <2>2, <2>3 DEF Heard, LogOnIsHeard
<1>. QED  BY <1>1, <1>2

\* They survive what steamclient reports, which ends its LogOn.
LEMMA HeardSteam ==
    ASSUME TypeOK, Heard, SteamStep
    PROVE  Heard'
<1>. USE DEF TypeOK, SteamType
<1>1. thread' = thread /\ steam'.conns = steam.conns /\ steam'.appConns = steam.appConns
  BY DEF SteamStep, LogOnSucceeds, LogOnFails, Reconnected, ConnectionFailed, CallbackThreadReturns, PostLogonState
<1>2. CASE LogOnSucceeds \/ LogOnFails
  <2>1. steam'.logon = "none"
    BY <1>2 DEF LogOnSucceeds, LogOnFails
  <2>. QED  BY <1>1, <2>1 DEF Heard, LogOnIsHeard, Poller
<1>3. CASE CallbackThreadReturns
  <2>1. steam'.logon \notin Outstanding
    BY <1>3 DEF CallbackThreadReturns, Outstanding, Poller
  <2>. QED  BY <1>1, <2>1 DEF Heard, LogOnIsHeard, Outstanding
<1>4. CASE ConnectionFailed
  <2>1. steam.loggedOn /\ steam'.logon = steam.logon
    BY <1>4 DEF ConnectionFailed
  <2>2. steam.logon # "app"
    BY <2>1 DEF Heard
  <2>. QED  BY <1>1, <2>1, <2>2 DEF Heard, LogOnIsHeard
<1>5. CASE Reconnected \/ PostLogonState
  <2>1. steam'.logon = steam.logon /\ steam'.loggedOn = steam.loggedOn
    BY <1>5 DEF Reconnected, PostLogonState
  <2>2. Queued(mainQ', "appLoginFailed") => Queued(mainQ, "appLoginFailed")
    <3>1. Queued(Append(mainQ, <<"postLogonState", "none">>), "appLoginFailed")
            => Queued(mainQ, "appLoginFailed")
      BY QueuedAppend
    <3>. QED  BY <1>5, <3>1 DEF Reconnected, PostLogonState
  <2>. QED  BY <1>1, <2>1, <2>2 DEF Heard, LogOnIsHeard
<1>. QED  BY <1>2, <1>3, <1>4, <1>5 DEF SteamStep

\* They survive the main thread: appLoginFailed is handled after the LogOn of
\* Application, and a sign out leaves no LogOn outstanding.
LEMMA HeardMainThread ==
    ASSUME TypeOK, Heard, MainThreadStep \/ UserStep
    PROVE  Heard'
<1>. USE DEF TypeOK, SteamType
<1>1. CASE appLoginFailed
  <2>1. Queued(mainQ, "appLoginFailed")
    BY <1>1 DEF appLoginFailed, Handle, Queued
  <2>2. steam.logon # "app"
    BY <2>1 DEF Heard
  <2>3. thread' = thread /\ steam'.logon = steam.logon /\ steam'.conns = steam.conns
    BY <1>1 DEF appLoginFailed
  <2>. QED  BY <2>2, <2>3 DEF Heard, LogOnIsHeard
<1>2. CASE LogOut
  <2>1. steam'.logon \notin Outstanding /\ steam'.conns = steam.conns /\ thread' = thread
    BY <1>2 DEF LogOut, Outstanding, Poller
  <2>. QED  BY <2>1 DEF Heard, LogOnIsHeard, Outstanding
<1>3. CASE (MainThreadStep \/ UserStep) /\ ~appLoginFailed /\ ~LogOut
  <2>1. thread' = thread /\ steam' = steam
    BY <1>3 DEF MainThreadStep, startThread, secondFactorNeeded, loginFailed, loginSucceeded,
                postLogonState, UserStep, StartLogin, CancelDialog, Escape, RegenerateQR
  <2>2. mainQ' = mainQ \/ (mainQ # <<>> /\ mainQ' = Tail(mainQ))
    BY <1>3 DEF MainThreadStep, startThread, secondFactorNeeded, loginFailed, loginSucceeded,
                postLogonState, UserStep, StartLogin, CancelDialog, Escape, RegenerateQR, Handle
  <2>3. Queued(mainQ', "appLoginFailed") => Queued(mainQ, "appLoginFailed")
    BY <2>2, QueuedTail
  <2>. QED  BY <2>1, <2>3 DEF Heard, LogOnIsHeard
<1>. QED  BY <1>1, <1>2, <1>3

LEMMA HeardInductive == Spec => []Heard
<1>1. Init => Heard
  BY DEF Init, Heard, LogOnIsHeard, Queued, Poller
<1>2. TypeOK /\ Heard /\ [Next]_vars => Heard'
  <2>. SUFFICES ASSUME TypeOK, Heard, [Next]_vars
                PROVE  Heard'
    OBVIOUS
  <2>1. CASE \E p \in Poller : PollerStep(p)
    <3>1. UNCHANGED <<thread, mainQ, steam>>
      BY <2>1 DEF PollerStep, PollerStarted, PollerBegins, PollPending, NewClientIdTooLate, PollAnswered,
                  PollToken, PollFailed, PollerEnded
    <3>. QED  BY <3>1 DEF Heard, LogOnIsHeard
  <2>2. CASE UNCHANGED vars
    BY <2>2 DEF Heard, LogOnIsHeard, vars
  <2>. QED
    BY <2>1, <2>2, HeardLoginThread, HeardSteam, HeardMainThread DEF Next
<1>. QED  BY <1>1, <1>2, TypeCorrect, PTL DEF Spec

\* Whatever steamclient answers to an outstanding LogOn is heard by someone.
THEOREM EveryLogOnIsHeard == Spec => []LogOnIsHeard
<1>1. Heard => LogOnIsHeard
  BY DEF Heard
<1>. QED  BY <1>1, HeardInductive, PTL

-----------------------------------------------------------------------------
\* The slots that end a cached logon reset the flag; every other slot leaves
\* their events in the queue, and so does every other thread.
LEMMA FreshLoginThread ==
    ASSUME TypeOK, Heard, CachedFlagAwaitsAnswer, LoginThreadStep
    PROVE  CachedFlagAwaitsAnswer'
<1>. USE DEF TypeOK
<1>1. CASE LogOnWithCachedCredentials \/ TokenReceived
  <2>1. PICK how \in Poller \cup {"cached"} :
         steam' = [steam EXCEPT !.logon = how, !.conns = Connected(@)]
    BY <1>1, TakeType, Slots DEF LogOnWithCachedCredentials, TokenReceived, LogOn, Take
  <2>2. steam'.logon # "none"
    BY <2>1 DEF SteamType, Poller
  <2>. QED  BY <2>2 DEF CachedFlagAwaitsAnswer, Unhandled
<1>2. CASE steamServerConnected \/ steamServerConnectFailure
  <2>1. ~thread'.isCachedCredentialLogin
    BY <1>2 DEF steamServerConnected, steamServerConnectFailure, ThreadType
  <2>. QED  BY <2>1 DEF CachedFlagAwaitsAnswer, Unhandled
<1>3. CASE /\ ~LogOnWithCachedCredentials /\ ~TokenReceived
           /\ ~steamServerConnected /\ ~steamServerConnectFailure
  <2>1. steam' = steam /\ (thread'.isCachedCredentialLogin => thread.isCachedCredentialLogin)
    BY <1>3 DEF ThreadType, LoginThreadStep, StartGeneratingQRCodes, QRSessionBegun, RefuseLogon,
         StartLogonWithCredentials, PublicKeyFailed, CredentialsRejected, CredentialsReplyLost,
         CredentialsSessionBegun, SetInterval, SetSession, PollingError, CancelLogin
  <2>2. \/ loginQ' = loginQ
        \/ /\ loginQ # <<>> /\ loginQ' = Tail(loginQ)
           /\ Head(loginQ)[1] \notin {"steamServerConnected", "steamServerConnectFailure"}
    BY <1>3 DEF LoginThreadStep, StartGeneratingQRCodes, QRSessionBegun, RefuseLogon,
         StartLogonWithCredentials, PublicKeyFailed, CredentialsRejected, CredentialsReplyLost,
         CredentialsSessionBegun, SetInterval, SetSession, PollingError, CancelLogin, Take
  <2>3. \A slot \in {"steamServerConnected", "steamServerConnectFailure"} :
          Queued(loginQ, slot) => Queued(loginQ', slot)
    BY <2>2, QueuedTail
  <2>. QED  BY <2>1, <2>3 DEF CachedFlagAwaitsAnswer, Unhandled
<1>. QED  BY <1>1, <1>2, <1>3

\* Nobody but the LoginThread takes an event from its queue.
LEMMA QueueOthers ==
    ASSUME TypeOK, ~LoginThreadStep, Next, NEW slot
    PROVE  thread' = thread /\ (Queued(loginQ, slot) => Queued(loginQ', slot))
<1>. USE DEF TypeOK
<1>1. CASE \E p \in Poller : PollerStep(p)
  <2>1. PICK p \in Poller : PollerStep(p)
    BY <1>1
  <2>2. poller[p].conns \in Nat
    BY DEF PollerType
  <2>3. \/ loginQ' = loginQ
        \/ \E event : loginQ' = Emit(loginQ, poller[p].conns, event)
    BY <2>1 DEF PollerStep, PollerStarted, PollerBegins, PollPending, NewClientIdTooLate, PollAnswered,
                PollToken, PollFailed, PollerEnded
  <2>4. thread' = thread
    BY <2>1 DEF PollerStep, PollerStarted, PollerBegins, PollPending, NewClientIdTooLate, PollAnswered,
                PollToken, PollFailed, PollerEnded
  <2>. QED  BY <2>2, <2>3, <2>4, QueuedEmit
<1>2. CASE SteamStep
  <2>1. steam.conns \in Nat
    BY DEF SteamType
  <2>2. \/ loginQ' = loginQ
        \/ \E event : loginQ' = Emit(loginQ, steam.conns, event)
    BY <1>2 DEF SteamStep, LogOnSucceeds, LogOnFails, Reconnected, ConnectionFailed, CallbackThreadReturns,
                PostLogonState
  <2>3. thread' = thread
    BY <1>2 DEF SteamStep, LogOnSucceeds, LogOnFails, Reconnected, ConnectionFailed, CallbackThreadReturns,
                PostLogonState
  <2>. QED  BY <2>1, <2>2, <2>3, QueuedEmit
<1>3. CASE MainThreadStep \/ UserStep
  <2>1. loginQ' = loginQ \/ \E event : loginQ' = Append(loginQ, event)
    BY <1>3 DEF MainThreadStep, startThread, secondFactorNeeded, loginFailed, loginSucceeded,
                appLoginFailed, postLogonState, UserStep, StartLogin, CancelDialog, Escape, RegenerateQR,
                LogOut, ShowLoginWindow, RequestQRCode
  <2>2. thread' = thread
    BY <1>3 DEF MainThreadStep, startThread, secondFactorNeeded, loginFailed, loginSucceeded,
                appLoginFailed, postLogonState, UserStep, StartLogin, CancelDialog, Escape, RegenerateQR,
                LogOut
  <2>. QED  BY <2>1, <2>2, QueuedAppend
<1>. QED  BY <1>1, <1>2, <1>3 DEF Next

\* While isCachedCredentialLogin is set a LogOn is unanswered, or an answer is on
\* its way to the slot that resets the flag, since the handlers are connected by
\* then; unless nobody pumps callbacks.
THEOREM FlagAwaitsAnswer == Spec => []CachedFlagAwaitsAnswer
<1>1. Init => CachedFlagAwaitsAnswer
  BY DEF Init, CachedFlagAwaitsAnswer, Unhandled
<1>2. TypeOK /\ Heard /\ CachedFlagAwaitsAnswer /\ [Next]_vars => CachedFlagAwaitsAnswer'
  <2>. SUFFICES ASSUME TypeOK, Heard, CachedFlagAwaitsAnswer, [Next]_vars
                PROVE  CachedFlagAwaitsAnswer'
    OBVIOUS
  <2>1. CASE LoginThreadStep
    BY <2>1, FreshLoginThread
  <2>2. CASE ~LoginThreadStep /\ Next /\ steam.logon # "none" /\ steam'.logon = "none"
    <3>. SUFFICES ASSUME thread'.isCachedCredentialLogin
                  PROVE  \/ Queued(loginQ', "steamServerConnected")
                         \/ Queued(loginQ', "steamServerConnectFailure")
                         \/ ~steam'.pumping
      BY DEF CachedFlagAwaitsAnswer, Unhandled
    <3>1. steam.conns \in Nat /\ steam.conns > 0
      BY <2>2, QueueOthers DEF Heard, TypeOK, SteamType
    <3>2. LogOnSucceeds \/ LogOnFails \/ CallbackThreadReturns
      <4>1. /\ ~Reconnected /\ ~ConnectionFailed /\ ~PostLogonState
            /\ ~LogOut /\ ~appLoginFailed
        BY <2>2 DEF TypeOK, SteamType, Reconnected, ConnectionFailed, PostLogonState,
                    LogOut, appLoginFailed
      <4>2. steam' # steam
        BY <2>2
      <4>. QED
        BY <2>2, <4>1, <4>2 DEF Next, PollerStep, PollerStarted, PollerBegins, PollPending, NewClientIdTooLate,
           PollAnswered, PollToken, PollFailed, PollerEnded, SteamStep, MainThreadStep,
           startThread, secondFactorNeeded, loginFailed, loginSucceeded, postLogonState,
           UserStep, StartLogin, CancelDialog, Escape, RegenerateQR
    <3>3. CASE LogOnSucceeds
      BY <3>1, <3>3, QueuedEmit DEF LogOnSucceeds, TypeOK
    <3>4. CASE LogOnFails
      BY <3>1, <3>4, QueuedEmit DEF LogOnFails, TypeOK
    <3>5. CASE CallbackThreadReturns
      BY <3>5 DEF CallbackThreadReturns, TypeOK, SteamType
    <3>. QED  BY <3>2, <3>3, <3>4, <3>5
  <2>3. CASE ~LoginThreadStep /\ Next /\ (steam.logon # "none" => steam'.logon # "none")
    <3>1. ~steam.pumping => ~steam'.pumping
      BY <2>3 DEF Next, TypeOK, SteamType, PollerStep, PollerStarted, PollerBegins, PollPending,
         NewClientIdTooLate, PollAnswered, PollToken, PollFailed, PollerEnded, SteamStep,
         LogOnSucceeds, LogOnFails, Reconnected, ConnectionFailed, CallbackThreadReturns, PostLogonState,
         MainThreadStep, startThread, secondFactorNeeded, loginFailed, loginSucceeded,
         appLoginFailed, postLogonState, UserStep, StartLogin, CancelDialog, Escape, RegenerateQR, LogOut
    <3>. QED  BY <2>3, <3>1, QueueOthers DEF CachedFlagAwaitsAnswer, Unhandled
  <2>4. CASE UNCHANGED vars
    BY <2>4 DEF CachedFlagAwaitsAnswer, Unhandled, vars
  <2>. QED  BY <2>1, <2>2, <2>3, <2>4
<1>. QED  BY <1>1, <1>2, TypeCorrect, HeardInductive, PTL DEF Spec
=============================================================================
