------------------------------- MODULE Login -------------------------------
(***************************************************************************)
(* Signing in: the LoginThread (login/loginthread.cpp), its two            *)
(* JobLoginPolling jobs (login/loginpolljob.cpp), and what the main thread *)
(* and the steamclient library do with them: LoginWindow, TwoFactorDialog, *)
(* and Application on the way from a logon to the main window.             *)
(*                                                                         *)
(* The LoginThread executes its slots one at a time from its event queue   *)
(* loginQ and blocks inside a slot while it awaits a reply.  The main      *)
(* thread executes mainQ the same way; between two events the user acts.   *)
(* Each poller is a thread of its own and shares its fields with the       *)
(* LoginThread without a lock.  The CallbackThread turns what steamclient  *)
(* reports into events.  An event is a pair <<slot, argument>>.            *)
(*                                                                         *)
(* A definition whose comment begins with "Without", or that says what is  *)
(* wrong with it, is a variant of the one after it with a plausible bug;   *)
(* no action uses it.  It shows that a property depends on that code.      *)
(***************************************************************************)
EXTENDS Naturals, Sequences

CONSTANTS MaxAttempts,    \* bound: presses of the login button
          MaxQR,          \* bound: QR codes after which the user asks for no more
          MaxReports,     \* bound: changes of the connection reported while logged on
          MaxConns,       \* bound: connections counted of a signal to a slot
          Faults          \* the replies that may not arrive intact

ASSUME LoginAssumption ==
    /\ MaxAttempts \in Nat /\ MaxQR \in Nat /\ MaxReports \in Nat
    /\ MaxConns \in Nat \ {0}
    /\ Faults \subseteq {"publicKey", "beginAuth", "beginQR", "noConnection"}

VARIABLES loginQ,   \* events queued for the LoginThread
          thread,   \* LoginThread: where it is in a slot, and its flags
          poller,   \* the two JobLoginPolling objects
          mainQ,    \* events queued for the main thread
          ui,       \* LoginWindow, TwoFactorDialogs, progress dialog, MainWindow
          steam     \* steamclient, and what is connected to its callbacks

vars == <<loginQ, thread, poller, mainQ, ui, steam>>

Poller == {"QR", "Credentials"}               \* enum PollerType
EResult == {"Expired", "FileNotFound", "other"}

LoginSlot ==
    ({"StartGeneratingQRCodes", "StartLogonWithCredentials", "CancelLogin",
      "steamServerConnected", "steamServerConnectFailure"} \X {"none"})
    \cup ({"TokenReceived"} \X Poller)
    \cup ({"PollingError"} \X EResult)

MainSlot ==
    ({"secondFactorNeeded", "loginSucceeded", "appLoginFailed", "postLogonState"} \X {"none"})
    \cup ({"startThread"} \X Poller)
    \cup ({"loginFailed"} \X EResult)

\* An event for each of the n connections of a signal.
Emit(queue, n, event) == queue \o [i \in 1..n |-> event]

\* One more connect() of a signal to a slot it may be connected to already.
Connected(n) == IF n < MaxConns THEN n + 1 ELSE n

Queued(queue, slot) == \E i \in 1..Len(queue) : queue[i][1] = slot

\* client_id and request_id are abstracted to whether the server knows them as
\* a session; polled says whether the poll under way is for those ids, for
\* older ones, or for none.
IdlePoller == [interval |-> 0, session |-> FALSE, run |-> "none", polled |-> "none", conns |-> 0]

\* StartApplication: the login window with a first QR code, or a logon with
\* the cached credentials of the last user and the progress dialog.
Init ==
    \E auto \in BOOLEAN :
      /\ loginQ = IF auto THEN <<>> ELSE << <<"StartGeneratingQRCodes", "none">> >>
      /\ thread = [pc |-> "idle", job |-> "QR", begun |-> FALSE,
                   bIsLogonStarted |-> FALSE, isCachedCredentialLogin |-> FALSE]
      /\ poller = [p \in Poller |-> IdlePoller]
      /\ mainQ = <<>>
      /\ ui = [isLoginInProgress |-> FALSE, attempts |-> 0, qrs |-> IF auto THEN 0 ELSE 1,
               dialog |-> "none", oldDialogs |-> 0, regenerate |-> FALSE,
               loginShown |-> ~auto, progress |-> auto, mainWindows |-> 0, hasLogonCompleted |-> FALSE]
      /\ steam = [logon |-> IF auto THEN "app" ELSE "none", loggedOn |-> FALSE,
                  reports |-> 0, conns |-> 0, appConns |-> auto, pumping |-> TRUE]

-----------------------------------------------------------------------------
(* The LoginThread *)

\* The LoginThread takes up the next event, a call of this slot.
Take(slot) ==
    /\ thread.pc = "idle"
    /\ loginQ # <<>>
    /\ Head(loginQ)[1] = slot
    /\ loginQ' = Tail(loginQ)

\* StopPolling of the pollers in ps.
StopPolling(ps) ==
    [p \in Poller |-> IF p \in ps THEN [poller[p] EXCEPT !.interval = 0] ELSE poller[p]]

\* Without the connect() calls.
LogOnUnheard(how) == steam' = [steam EXCEPT !.logon = how]

\* Logging on with the token of a poller or with cached credentials.  The
\* handlers are connected to the callback thread each time; nothing ever
\* disconnects them.
LogOn(how) ==
    steam' = [steam EXCEPT !.logon = how, !.conns = Connected(@)]

StartGeneratingQRCodes ==
    /\ Take("StartGeneratingQRCodes")
    /\ thread' = [thread EXCEPT !.pc = "beginQR", !.job = "QR"]
    /\ UNCHANGED <<poller, mainQ, ui, steam>>

\* The reply to BeginAuthSessionViaQR, used without a look at its success: a
\* failed one carries the interval 0 and no session.  StartPolling begins
\* with StartJob, which posts startThread to the main thread.
QRSessionBegun ==
    /\ thread.pc = "beginQR"
    /\ \E begun \in IF "beginQR" \in Faults THEN BOOLEAN ELSE {TRUE} :
         thread' = [thread EXCEPT !.pc = "setInterval", !.begun = begun]
    /\ poller' = [poller EXCEPT !["QR"].conns = Connected(@)]
    /\ mainQ' = Append(mainQ, <<"startThread", "QR">>)
    /\ UNCHANGED <<loginQ, ui, steam>>

RefuseLogon ==
    /\ Take("StartLogonWithCredentials")
    /\ thread.bIsLogonStarted
    /\ UNCHANGED <<thread, poller, mainQ, ui, steam>>

\* From here the slot blocks in ConnectToCMs, for the public key and for the
\* reply to BeginAuthSessionViaCredentials, and touches no shared state in
\* between: one blocked state with five outcomes.
StartLogonWithCredentials ==
    /\ Take("StartLogonWithCredentials")
    /\ ~thread.bIsLogonStarted
    /\ thread' = [thread EXCEPT !.pc = "beginAuth", !.job = "Credentials",
                                !.bIsLogonStarted = TRUE]
    /\ UNCHANGED <<poller, mainQ, ui, steam>>

LogOnWithCachedCredentials ==
    /\ thread.pc = "beginAuth"
    /\ thread' = [thread EXCEPT !.pc = "idle", !.isCachedCredentialLogin = TRUE,
                                !.bIsLogonStarted = FALSE]
    /\ LogOn("cached")
    /\ poller' = StopPolling(Poller)
    /\ UNCHANGED <<loginQ, mainQ, ui>>

\* Returns without resetting bIsLogonStarted.
PublicKeyFailed ==
    /\ thread.pc = "beginAuth"
    /\ "publicKey" \in Faults
    /\ thread' = [thread EXCEPT !.pc = "idle"]
    /\ mainQ' = Append(mainQ, <<"loginFailed", "other">>)
    /\ UNCHANGED <<loginQ, poller, ui, steam>>

\* A reply with an EResult other than OK: a wrong password, for one.
CredentialsRejected ==
    /\ thread.pc = "beginAuth"
    /\ thread' = [thread EXCEPT !.pc = "idle", !.bIsLogonStarted = FALSE]
    /\ mainQ' = Append(mainQ, <<"loginFailed", "other">>)
    /\ UNCHANGED <<loginQ, poller, ui, steam>>

\* A reply that does not parse: the flag is reset, and nobody is told.
CredentialsReplyLost ==
    /\ thread.pc = "beginAuth"
    /\ "beginAuth" \in Faults
    /\ thread' = [thread EXCEPT !.pc = "idle", !.bIsLogonStarted = FALSE]
    /\ UNCHANGED <<loginQ, poller, mainQ, ui, steam>>

CredentialsSessionBegun ==
    /\ thread.pc = "beginAuth"
    /\ thread' = [thread EXCEPT !.pc = "setInterval", !.begun = TRUE]
    /\ poller' = [poller EXCEPT !["Credentials"].conns = Connected(@)]
    /\ \E confirmations \in {<<>>, << <<"secondFactorNeeded", "none">> >>} :
         mainQ' = Append(mainQ \o confirmations, <<"startThread", "Credentials">>)
    /\ UNCHANGED <<loginQ, ui, steam>>

\* The rest of StartPolling: pollingInterval, then the ids.  The job may
\* already be running while they are assigned.
SetInterval ==
    /\ thread.pc = "setInterval"
    /\ thread' = [thread EXCEPT !.pc = "setSession"]
    /\ poller' = [poller EXCEPT ![thread.job].interval = IF thread.begun THEN 1 ELSE 0]
    /\ UNCHANGED <<loginQ, mainQ, ui, steam>>

SetSession ==
    /\ thread.pc = "setSession"
    /\ thread' = [thread EXCEPT !.pc = "idle"]
    /\ poller' = [poller EXCEPT ![thread.job].session = thread.begun,
                                ![thread.job].polled = IF @ = "current" THEN "old" ELSE @]
    /\ UNCHANGED <<loginQ, mainQ, ui, steam>>

\* TokenReceived and the LogInWithToken it ends with.
TokenReceived ==
    /\ Take("TokenReceived")
    /\ thread' = [thread EXCEPT !.bIsLogonStarted = FALSE]
    /\ LogOn(Head(loginQ)[2])
    /\ poller' = StopPolling(Poller)
    /\ UNCHANGED <<mainQ, ui>>

\* Wrong: the name of the slot forwarded in place of the EResult.
PollingErrorMixedUp ==
    /\ Take("PollingError")
    /\ mainQ' = Append(mainQ, <<"loginFailed", Head(loginQ)[1]>>)
    /\ UNCHANGED <<thread, poller, ui, steam>>

PollingError ==
    /\ Take("PollingError")
    /\ mainQ' = Append(mainQ, <<"loginFailed", Head(loginQ)[2]>>)
    /\ UNCHANGED <<thread, poller, ui, steam>>

\* Without the call of StopPolling.
CancelLoginKeepsPolling ==
    /\ Take("CancelLogin")
    /\ thread' = [thread EXCEPT !.bIsLogonStarted = FALSE]
    /\ mainQ' = IF thread.bIsLogonStarted THEN Append(mainQ, <<"loginFailed", "other">>) ELSE mainQ
    /\ UNCHANGED <<poller, ui, steam>>

\* Without the signal OnLogonFailed.
CancelLoginSilently ==
    /\ Take("CancelLogin")
    /\ thread' = [thread EXCEPT !.bIsLogonStarted = FALSE]
    /\ poller' = IF thread.bIsLogonStarted THEN StopPolling({"Credentials"}) ELSE poller
    /\ UNCHANGED <<mainQ, ui, steam>>

CancelLogin ==
    /\ Take("CancelLogin")
    /\ IF thread.bIsLogonStarted
         THEN /\ thread' = [thread EXCEPT !.bIsLogonStarted = FALSE]
              /\ poller' = StopPolling({"Credentials"})
              /\ mainQ' = Append(mainQ, <<"loginFailed", "other">>)
         ELSE UNCHANGED <<thread, poller, mainQ>>
    /\ UNCHANGED <<ui, steam>>

steamServerConnected ==
    /\ Take("steamServerConnected")
    /\ thread' = [thread EXCEPT !.isCachedCredentialLogin = FALSE]
    /\ mainQ' = Append(mainQ, <<"loginSucceeded", "none">>)
    /\ UNCHANGED <<poller, ui, steam>>

\* Without the reset of isCachedCredentialLogin.
ConnectFailureKeepsFlag ==
    /\ Take("steamServerConnectFailure")
    /\ mainQ' = Append(mainQ, <<"loginFailed", "other">>)
    /\ UNCHANGED <<thread, poller, ui, steam>>

\* Without the signal OnLogonFailed.
ConnectFailureSilently ==
    /\ Take("steamServerConnectFailure")
    /\ thread' = [thread EXCEPT !.isCachedCredentialLogin = FALSE]
    /\ UNCHANGED <<poller, mainQ, ui, steam>>

steamServerConnectFailure ==
    /\ Take("steamServerConnectFailure")
    /\ thread' = [thread EXCEPT !.isCachedCredentialLogin = FALSE]
    /\ mainQ' = Append(mainQ, <<"loginFailed", "other">>)
    /\ UNCHANGED <<poller, ui, steam>>

LoginThreadStep ==
    \/ StartGeneratingQRCodes \/ QRSessionBegun
    \/ RefuseLogon \/ StartLogonWithCredentials
    \/ LogOnWithCachedCredentials \/ PublicKeyFailed
    \/ CredentialsRejected \/ CredentialsReplyLost \/ CredentialsSessionBegun
    \/ SetInterval \/ SetSession
    \/ TokenReceived \/ PollingError \/ CancelLogin
    \/ steamServerConnected \/ steamServerConnectFailure

-----------------------------------------------------------------------------
(* The pollers: JobLoginPolling::JobMain, each in a thread of its own *)

\* A poll is sent for the session the fields hold now.
Polling(p) ==
    [poller EXCEPT ![p].run = "await", ![p].polled = IF poller[p].session THEN "current" ELSE "none"]

\* The job leaves the wait for a first interval, which only an interval ends.
PollerStarted(p) ==
    /\ poller[p].run = "wait"
    /\ poller[p].interval # 0
    /\ poller' = [poller EXCEPT ![p].run = "begin"]
    /\ UNCHANGED <<loginQ, thread, mainQ, ui, steam>>

\* It looks at the interval once more: a job that was stopped meanwhile ends
\* without a poll.
PollerBegins(p) ==
    /\ poller[p].run = "begin"
    /\ poller' = IF poller[p].interval # 0 THEN Polling(p) ELSE [poller EXCEPT ![p].run = "none"]
    /\ UNCHANGED <<loginQ, thread, mainQ, ui, steam>>

\* A reply without a token, the sleep and the loop test: the job sends its
\* next poll or ends.
PollPending(p) ==
    /\ poller[p].run = "await"
    /\ poller[p].polled # "none"
    /\ poller' = IF poller[p].interval # 0 THEN Polling(p) ELSE [poller EXCEPT ![p].run = "none"]
    /\ UNCHANGED <<loginQ, thread, mainQ, ui, steam>>

\* Such a reply may assign a new client id.  If the fields hold a newer session
\* by then, they end up with the client id of the one and the request id of the
\* other, which the server does not know.
NewClientIdTooLate(p) ==
    /\ poller[p].run = "await"
    /\ poller[p].polled = "old"
    /\ poller' = [poller EXCEPT ![p].session = FALSE]
    /\ UNCHANGED <<loginQ, thread, mainQ, ui, steam>>

PollToken(p) ==
    /\ poller[p].run = "await"
    /\ poller[p].polled # "none"
    /\ poller' = [poller EXCEPT ![p].run = "clear"]
    /\ loginQ' = Emit(loginQ, poller[p].conns, <<"TokenReceived", p>>)
    /\ UNCHANGED <<thread, mainQ, ui, steam>>

PollFailed(p) ==
    /\ poller[p].run = "await"
    /\ poller' = [poller EXCEPT ![p].run = "clear"]
    /\ \E result \in EResult :
         loginQ' = Emit(loginQ, poller[p].conns, <<"PollingError", result>>)
    /\ UNCHANGED <<thread, mainQ, ui, steam>>

\* After its signal the job clears the interval, whoever has set it since.
PollerEnded(p) ==
    /\ poller[p].run = "clear"
    /\ poller' = [poller EXCEPT ![p].run = "none", ![p].interval = 0]
    /\ UNCHANGED <<loginQ, thread, mainQ, ui, steam>>

PollAnswered(p) == PollToken(p) \/ PollFailed(p)

PollerStep(p) ==
    \/ PollerStarted(p) \/ PollerBegins(p) \/ PollPending(p) \/ NewClientIdTooLate(p)
    \/ PollAnswered(p) \/ PollerEnded(p)

-----------------------------------------------------------------------------
(* steamclient and the CallbackThread.  steamclient works on one LogOn at a *)
(* time, a newer one replaces it; what it reports reaches the LoginThread   *)
(* once per connection, and Application if that connected at startup.       *)

\* A LogOn yet to be answered: with the token of a poller, with cached
\* credentials, or of Application at startup.  One that a sign out cancels is
\* "dropped" and never answered.
Outstanding == Poller \cup {"cached", "app"}

LogOnSucceeds ==
    /\ steam.pumping
    /\ steam.logon \in Outstanding
    /\ steam' = [steam EXCEPT !.logon = "none", !.loggedOn = TRUE]
    /\ loginQ' = Emit(loginQ, steam.conns, <<"steamServerConnected", "none">>)
    /\ UNCHANGED <<thread, poller, mainQ, ui>>

LogOnFails ==
    /\ steam.pumping
    /\ steam.logon \in Outstanding
    /\ steam' = [steam EXCEPT !.logon = "none"]
    /\ loginQ' = Emit(loginQ, steam.conns, <<"steamServerConnectFailure", "none">>)
    /\ mainQ' = IF steam.appConns THEN Append(mainQ, <<"appLoginFailed", "none">>) ELSE mainQ
    /\ UNCHANGED <<thread, poller, ui>>

\* The same callbacks come when the connection of an account that is logged on
\* is there again, or fails.
Reconnected ==
    /\ steam.pumping
    /\ steam.loggedOn
    /\ steam.reports < MaxReports
    /\ steam' = [steam EXCEPT !.reports = @ + 1]
    /\ loginQ' = Emit(loginQ, steam.conns, <<"steamServerConnected", "none">>)
    /\ UNCHANGED <<thread, poller, mainQ, ui>>

ConnectionFailed ==
    /\ steam.pumping
    /\ steam.loggedOn
    /\ steam.reports < MaxReports
    /\ steam' = [steam EXCEPT !.reports = @ + 1]
    /\ loginQ' = Emit(loginQ, steam.conns, <<"steamServerConnectFailure", "none">>)
    /\ mainQ' = IF steam.appConns THEN Append(mainQ, <<"appLoginFailed", "none">>) ELSE mainQ
    /\ UNCHANGED <<thread, poller, ui>>

\* On k_EResultNoConnection the ThreadMain of the CallbackThread returns.
CallbackThreadReturns ==
    /\ steam.pumping
    /\ steam.logon \in Outstanding \/ steam.loggedOn
    /\ "noConnection" \in Faults
    /\ steam' = [steam EXCEPT !.logon = IF @ \in Outstanding THEN "none" ELSE @, !.pumping = FALSE]
    /\ UNCHANGED <<loginQ, thread, poller, mainQ, ui>>

\* PostLogonState_t with logonComplete, which steamclient may send repeatedly.
PostLogonState ==
    /\ steam.pumping
    /\ steam.loggedOn
    /\ ~Queued(mainQ, "postLogonState")
    /\ mainQ' = Append(mainQ, <<"postLogonState", "none">>)
    /\ UNCHANGED <<loginQ, thread, poller, ui, steam>>

SteamStep ==
    \/ LogOnSucceeds \/ LogOnFails
    \/ Reconnected \/ ConnectionFailed \/ CallbackThreadReturns
    \/ PostLogonState

-----------------------------------------------------------------------------
(* The main thread *)

\* The main thread takes up the next event, a call of this slot.
Handle(slot) ==
    /\ mainQ # <<>>
    /\ Head(mainQ)[1] = slot
    /\ mainQ' = Tail(mainQ)

\* QThread::start does nothing to a thread that is still running.
startThread ==
    /\ Handle("startThread")
    /\ LET p == Head(mainQ)[2]
       IN poller' = IF poller[p].run = "none" THEN [poller EXCEPT ![p].run = "wait"] ELSE poller
    /\ UNCHANGED <<loginQ, thread, ui, steam>>

secondFactorNeeded ==
    /\ Handle("secondFactorNeeded")
    /\ ui' = [ui EXCEPT !.dialog = "shown",
                        !.oldDialogs = IF ui.dialog = "shown" THEN @ + 1 ELSE @]
    /\ UNCHANGED <<loginQ, thread, poller, steam>>

\* An expired QR code offers a new one and leaves the progress dialog alone.
loginFailed ==
    /\ Handle("loginFailed")
    /\ LET eResult == Head(mainQ)[2]
       IN ui' = [ui EXCEPT !.isLoginInProgress = FALSE,
                           !.regenerate = @ \/ eResult \in {"FileNotFound", "Expired"},
                           !.progress = @ /\ eResult = "Expired"]
    /\ UNCHANGED <<loginQ, thread, poller, steam>>

\* Only the newest TwoFactorDialog is known to the window, and deleted.
loginSucceeded ==
    /\ Handle("loginSucceeded")
    /\ ui' = [ui EXCEPT !.loginShown = FALSE, !.isLoginInProgress = FALSE, !.dialog = "none",
                        !.progress = TRUE]
    /\ UNCHANGED <<loginQ, thread, poller, steam>>

RequestQRCode == Append(loginQ, <<"StartGeneratingQRCodes", "none">>)

\* LoginWindow::showEvent: a login window that was hidden asks for a QR code.
\* The bound MaxQR is on what the user does, never on the handling of an event.
ShowLoginWindow ==
    loginQ' = IF ui.loginShown THEN loginQ ELSE RequestQRCode

\* Application::loginFailed: the logon at startup did not work out.
appLoginFailed ==
    /\ Handle("appLoginFailed")
    /\ ShowLoginWindow
    /\ ui' = [ui EXCEPT !.loginShown = TRUE, !.qrs = IF ui.loginShown THEN @ ELSE @ + 1,
                        !.progress = FALSE]
    /\ steam' = [steam EXCEPT !.appConns = FALSE]
    /\ UNCHANGED <<thread, poller>>

\* Without the test of hasLogonCompleted.
postLogonStateUnguarded ==
    /\ Handle("postLogonState")
    /\ ui' = [ui EXCEPT !.hasLogonCompleted = TRUE, !.progress = FALSE, !.mainWindows = @ + 1]
    /\ UNCHANGED <<loginQ, thread, poller, steam>>

postLogonState ==
    /\ Handle("postLogonState")
    /\ ui' = IF ui.hasLogonCompleted THEN ui
             ELSE [ui EXCEPT !.hasLogonCompleted = TRUE, !.progress = FALSE,
                             !.mainWindows = @ + 1]
    /\ UNCHANGED <<loginQ, thread, poller, steam>>

MainThreadStep ==
    \/ startThread \/ secondFactorNeeded \/ loginFailed \/ loginSucceeded
    \/ appLoginFailed \/ postLogonState

\* LoginWindow and the progress dialog are modal to the application, a
\* TwoFactorDialog to LoginWindow (windowModality in their .ui files).
FormUsable == ui.loginShown /\ ~ui.progress /\ ui.dialog # "shown" /\ ui.oldDialogs = 0

\* LoginWindow::startLogin.
StartLogin ==
    /\ FormUsable
    /\ ~ui.isLoginInProgress
    /\ ui.attempts < MaxAttempts
    /\ ui' = [ui EXCEPT !.isLoginInProgress = TRUE, !.attempts = @ + 1]
    /\ loginQ' = Append(loginQ, <<"StartLogonWithCredentials", "none">>)
    /\ UNCHANGED <<thread, poller, mainQ, steam>>

\* TwoFactorDialog::cancelButton_clicked, in any dialog still on the screen.
CancelDialog ==
    /\ ~ui.progress
    /\ \/ ui.dialog = "shown" /\ ui' = [ui EXCEPT !.dialog = "hidden"]
       \/ ui.oldDialogs > 0 /\ ui' = [ui EXCEPT !.oldDialogs = @ - 1]
    /\ loginQ' = Append(loginQ, <<"CancelLogin", "none">>)
    /\ UNCHANGED <<thread, poller, mainQ, steam>>

\* The Escape key closes a dialog without a word to anybody.
Escape ==
    /\ \/ ui.progress /\ ui' = [ui EXCEPT !.progress = FALSE]
       \/ ~ui.progress /\ ui.dialog = "shown" /\ ui' = [ui EXCEPT !.dialog = "none"]
       \/ ~ui.progress /\ ui.oldDialogs > 0 /\ ui' = [ui EXCEPT !.oldDialogs = @ - 1]
    /\ UNCHANGED <<loginQ, thread, poller, mainQ, steam>>

\* on_regenerateQRButton_clicked.
RegenerateQR ==
    /\ FormUsable
    /\ ui.regenerate
    /\ ui.qrs < MaxQR
    /\ loginQ' = RequestQRCode
    /\ ui' = [ui EXCEPT !.regenerate = FALSE, !.qrs = @ + 1]
    /\ UNCHANGED <<thread, poller, mainQ, steam>>

\* MainWindow::changeAccount and signOut: logoutAndShowWindow, delete this.
LogOut ==
    /\ ui.mainWindows > 0
    /\ ~ui.loginShown /\ ~ui.progress
    /\ ui.qrs < MaxQR
    /\ ShowLoginWindow
    /\ ui' = [ui EXCEPT !.mainWindows = @ - 1, !.hasLogonCompleted = FALSE,
                        !.loginShown = TRUE, !.qrs = @ + 1]
    /\ steam' = [steam EXCEPT !.logon = IF @ = "none" THEN @ ELSE "dropped", !.loggedOn = FALSE]
    /\ UNCHANGED <<thread, poller, mainQ>>

UserStep == StartLogin \/ CancelDialog \/ Escape \/ RegenerateQR \/ LogOut

-----------------------------------------------------------------------------
Next ==
    \/ LoginThreadStep
    \/ \E p \in Poller : PollerStep(p)
    \/ SteamStep
    \/ MainThreadStep
    \/ UserStep

\* The threads run and replies arrive.  A polled session is answered with a
\* token or an error in the end, since the server expires it.  The user owes
\* nothing.
Fairness ==
    /\ WF_vars(LoginThreadStep)
    /\ \A p \in Poller : WF_vars(PollerStep(p)) /\ SF_vars(PollAnswered(p))
    /\ WF_vars(LogOnSucceeds \/ LogOnFails)
    /\ WF_vars(MainThreadStep)

Spec == Init /\ [][Next]_vars /\ Fairness

-----------------------------------------------------------------------------
ThreadType ==
    thread \in [pc : {"idle", "beginQR", "beginAuth", "setInterval", "setSession"},
                job : Poller, begun : BOOLEAN,
                bIsLogonStarted : BOOLEAN, isCachedCredentialLogin : BOOLEAN]

PollerType ==
    poller \in [Poller -> [interval : {0, 1}, session : BOOLEAN, conns : Nat,
                           run : {"none", "wait", "begin", "await", "clear"},
                           polled : {"none", "current", "old"}]]

UIType ==
    ui \in [isLoginInProgress : BOOLEAN, attempts : Nat, qrs : Nat,
            dialog : {"none", "shown", "hidden"}, oldDialogs : Nat, regenerate : BOOLEAN,
            loginShown : BOOLEAN, progress : BOOLEAN, mainWindows : Nat, hasLogonCompleted : BOOLEAN]

SteamType ==
    steam \in [logon : Outstanding \cup {"none", "dropped"}, loggedOn : BOOLEAN,
               reports : Nat, conns : Nat, appConns : BOOLEAN, pumping : BOOLEAN]

\* The queues hold only calls of slots with the arguments those take, and the
\* state of each thread, window and job keeps its form.
TypeOK ==
    /\ loginQ \in Seq(LoginSlot)
    /\ mainQ \in Seq(MainSlot)
    /\ ThreadType /\ PollerType /\ UIType /\ SteamType

\* While no logon is started and the LoginThread is between two slots, the
\* credentials poller has been told to stop (interval 0), whichever of the token,
\* the cancel or the cached credentials ended the attempt.  A poll under way is
\* still answered, and the next attempt's StartPolling may find the job still
\* running (loginpolljob.cpp:83): this says nothing of what comes of those.
NotStartedNotPolling ==
    thread.pc = "idle" /\ ~thread.bIsLogonStarted => poller["Credentials"].interval = 0

\* Whatever steamclient answers to an outstanding LogOn is heard: by the
\* LoginThread, or by Application for the logon at startup.
LogOnIsHeard ==
    /\ steam.logon = "app" => steam.appConns
    /\ steam.logon \in Poller \cup {"cached"} => steam.conns > 0

Unhandled(queue) ==
    Queued(queue, "steamServerConnected") \/ Queued(queue, "steamServerConnectFailure")

\* isCachedCredentialLogin is not left set when all is answered: while it is set,
\* a LogOn is unanswered (by a sign out, perhaps for good), an answer is still
\* queued, or nobody pumps callbacks any more.  The LogOn that is unanswered need
\* not be the one it was set for: a LogOn that takes its place inherits the flag
\* (loginthread.cpp:217).
CachedFlagAwaitsAnswer ==
    thread.isCachedCredentialLogin =>
        steam.logon # "none" \/ Unhandled(loginQ) \/ ~steam.pumping

\* However often and however late steamclient reports the end of a logon, also
\* across a sign out, there is at most one MainWindow.
OneMainWindow == ui.mainWindows <= 1

\* Pressing Cancel in a TwoFactorDialog ends with an enabled login form
\* ("LoginThread will allow it after fail", loginwindow.cpp:81).
CancelReenablesInput ==
    Queued(loginQ, "CancelLogin") ~> ~ui.isLoginInProgress

\* Once a token or cached credentials are in use, the login form is enabled again
\* (or gone) when steamclient has answered, unless a sign out drops that LogOn
\* (steamServerConnected and steamServerConnectFailure both signal the window).
AnswerReenablesInput ==
    steam.logon \in Poller \cup {"cached"} ~> ~ui.isLoginInProgress \/ steam.logon = "dropped"

\* After a failure was shown and the form enabled again, with nothing on its way
\* between the threads, the LoginThread accepts the next attempt ("LoginThread
\* will allow it after fail", loginwindow.cpp:81).  The code does not keep this:
\* PollingError leaves bIsLogonStarted set.
AllowedAfterFail ==
    /\ ~ui.isLoginInProgress
    /\ loginQ = <<>> /\ mainQ = <<>> /\ thread.pc = "idle"
    => ~thread.bIsLogonStarted

\* Once the LoginThread has cancelled the attempt of a dialog the user left with
\* Cancel, and started no other, no token of it logs on ("User wants to cancel the
\* login", twofactordialog.cpp:67).  The code does not keep this: the reply to the
\* poll in flight is used.
NoLogOnAfterCancel ==
    [][ui.dialog = "hidden" /\ ~Queued(loginQ, "CancelLogin") /\ ~thread.bIsLogonStarted
       => steam'.logon # "Credentials" \/ steam' = steam]_vars

\* The progress dialog, which says "Waiting for steamclient..."
\* (loginwindow.cpp:183), is not on the screen when steamclient's logon has
\* completed.  The code does not keep this: the LoginThread may report the
\* success of a logon to the window when its end has been handled already.
WaitsForLogon == ui.progress => ~ui.hasLogonCompleted
=============================================================================
