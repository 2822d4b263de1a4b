------------------------------- MODULE Entry -------------------------------
(***************************************************************************)
(* The first page of the web client: the name, the account and the         *)
(* password, up to the login on a web socket.  Every answer of the HTTP    *)
(* service comes later, and reads the page as it is then.                  *)
(***************************************************************************)
EXTENDS Naturals, Sequences, FiniteSets

CONSTANTS
  Names,        \* names that are valid
  Bad,          \* a text that is not, and no password either
  Modes,        \* how the page is opened: "plain", "longturn", "hack", "autostart"
  Pages,        \* whether the page defines what the account's dialog needs
  MaxClicks,    \* bound: how often a dialog is submitted
  None          \* no text, no field, no answer

VARIABLES
  mode, complete,      \* the game's type, and whether accounts can be made
  dialog, trigger,     \* the dialog, and whether a button closes it
  field, password,     \* what is typed; a password is the name it belongs to
  username, own,       \* the window's name and pregame.ts's
  stored, token,       \* simpleStorage, and the name of google_user_token
  enabled, mail,       \* the account's button or buttons; is the e-mail looked up?
  asked,               \* requests that wait for their answers
  sockets, polls,      \* the web sockets; timers of check_websocket_ready
  logins,              \* logins: name and password
  submits, messy, way  \* history: submissions, whether they met, how they began

vars == <<mode, complete, dialog, trigger, field, password, username, own, stored, token,
          enabled, mail, asked, sockets, polls, logins, submits, messy, way>>

Typed == Names \cup {Bad, None}
Kinds == {"validate", "login", "create", "launch", "token", "name", "mail"}
Request(kind, name, secret) == [kind |-> kind, name |-> name, secret |-> secret]

\* Requests that are alike are told apart by a number.
Ask(r) == asked' = asked \cup {<<r, submits>>}
Answered(q) == asked' = asked \ {q}
Waits(kind) == \E q \in asked : q[1].kind = kind

pageVars == <<mode, complete>>
accountVars == <<enabled, mail>>
dialogVars == <<dialog, trigger, field, password, accountVars>>
userVars == <<username, own, stored, token>>
socketVars == <<sockets, polls, logins>>

\* A submission: it is the only one, or it meets another.
Submit(how) ==
  /\ submits < MaxClicks /\ ~messy
  /\ submits' = submits + 1 /\ way' = how
  /\ messy' = (asked # {})

-----------------------------------------------------------------------------
\* show_intro_dialog, show_longturn_intro_dialog
ShowIntro ==
  /\ dialog' = "intro" /\ UNCHANGED mail
  /\ enabled' = (stored.name = None \/ stored.secret = None)
  /\ field' = stored.name
  /\ password' = IF mode = "plain" THEN stored.secret ELSE None

\* validate_username: the window's name is set before it is looked at
Valid == field \in Names
ValidateUsername ==
  /\ username' = field
  /\ stored' = IF Valid THEN [stored EXCEPT !.name = field] ELSE stored

\* network_init, called by the answer q, asks the launcher
Launch(q) == asked' = (asked \ {q}) \cup {<<Request("launch", None, None), q[2]>>}
NoAnswer == <<Request("none", None, None), submits>>

-----------------------------------------------------------------------------
\* The visitor.
Types(text) ==
  /\ dialog = "intro" /\ field' = text /\ text # field
  /\ messy' = (messy \/ asked # {})
  /\ UNCHANGED <<pageVars, dialog, trigger, password, accountVars, userVars, asked, socketVars, submits, way>>

TypesPassword(name) ==
  /\ dialog = "intro" /\ password # None /\ password' = name /\ name # password
  /\ messy' = (messy \/ asked # {})
  /\ UNCHANGED <<pageVars, dialog, trigger, field, accountVars, userVars, asked, socketVars, submits, way>>

\* "Start Game", "Customize Game" and the Enter key: validate_username_callback.
Start ==
  /\ dialog = "intro" /\ mode = "plain" /\ Submit("button")
  /\ trigger' = TRUE
  /\ Ask(Request("validate", field, None))
  /\ UNCHANGED <<pageVars, dialog, field, password, accountVars, userVars, socketVars>>

\* beforeClose of the dialogs, when they are closed by hand
CloseIntro ==
  /\ dialog = "intro" /\ Submit("close")
  /\ IF trigger
     THEN dialog' = "closed" /\ UNCHANGED <<userVars, asked>>
     ELSE /\ ValidateUsername
          /\ dialog' = IF Valid THEN "closed" ELSE dialog
          /\ IF Valid THEN Launch(NoAnswer) ELSE UNCHANGED asked
          /\ UNCHANGED <<own, token>>
  /\ UNCHANGED <<pageVars, trigger, field, password, accountVars, socketVars>>

\* show_new_user_account_dialog: without the page's names it throws at once
NewAccount ==
  /\ dialog = "intro" /\ mode = "plain" /\ enabled /\ complete
  /\ dialog' = "account" /\ field' = None /\ password' = None
  /\ enabled' = TRUE /\ mail' = FALSE
  /\ messy' = (messy \/ asked # {})
  /\ UNCHANGED <<pageVars, trigger, userVars, asked, socketVars, submits, way>>

\* The name is looked up when its field is left; once a name was free, the
\* e-mail is too.
LeavesName ==
  /\ dialog = "account" /\ ~Waits("name") /\ Ask(Request("name", None, None))
  /\ UNCHANGED <<pageVars, dialogVars, userVars, socketVars, submits, messy, way>>

LeavesMail ==
  /\ dialog = "account" /\ mail /\ ~Waits("mail") /\ Ask(Request("mail", None, None))
  /\ UNCHANGED <<pageVars, dialogVars, userVars, socketVars, submits, messy, way>>

CloseAccount ==
  /\ dialog = "account" /\ dialog' = "closed"
  /\ UNCHANGED <<pageVars, trigger, field, password, accountVars, userVars, asked, socketVars, submits, messy, way>>

CancelAccount ==
  /\ dialog = "account" /\ enabled /\ ShowIntro
  /\ messy' = (messy \/ asked # {})
  /\ UNCHANGED <<pageVars, trigger, userVars, asked, socketVars, submits, way>>

\* create_new_freeciv_user_account_request; an e-mail or a password that will
\* not do is as a bad name
Signup(name) ==
  /\ dialog = "account" /\ enabled /\ Submit("account")
  /\ own' = name
  /\ IF name \in Names THEN dialog' = "hidden" /\ Ask(Request("create", name, name))
     ELSE UNCHANGED <<dialog, asked>>
  /\ UNCHANGED <<pageVars, trigger, field, password, accountVars, username, stored, token, socketVars>>

\* google_signin_on_success
SignIn ==
  /\ dialog = "intro" /\ mode = "longturn" /\ Submit("token")
  /\ ValidateUsername
  /\ IF Valid THEN Ask(Request("token", field, None)) ELSE UNCHANGED asked
  /\ UNCHANGED <<pageVars, dialogVars, own, token, socketVars>>

-----------------------------------------------------------------------------
\* Answers.

\* The name in the field is looked at again; network_init, and the dialog goes.
Connect(q) ==
  /\ username' = field
  /\ IF Valid
     THEN /\ stored' = [name |-> field, secret |-> q[1].secret]
          /\ Launch(q) /\ dialog' = "closed"
     ELSE stored' = stored /\ Answered(q) /\ UNCHANGED dialog

\* validate_username_callback, answer "user_does_not_exist"
Unused(q) ==
  /\ q[1].kind = "validate"
  /\ Connect(q)
  /\ UNCHANGED <<trigger, field, password, accountVars, own, token>>

\* validate_username_callback: the name is in use, so a password is wanted; the
\* field for it is made anew.  A field that is gone makes the answer throw.
InUse(q) ==
  /\ q[1].kind = "validate"
  /\ IF field = None
     THEN Answered(q) /\ UNCHANGED <<own, password>>
     ELSE LET secret == IF password = None THEN stored.secret ELSE password
          IN  /\ own' = field
              /\ asked' = (asked \ {q}) \cup
                          (IF secret \in Names THEN {<<Request("login", field, secret), q[2]>>} ELSE {})
              /\ password' = Bad
  /\ UNCHANGED <<dialog, trigger, field, accountVars, username, stored, token>>

\* login_user, answer "OK": the name is the one that was typed last
LoggedIn(q) ==
  /\ q[1].kind = "login" /\ q[1].secret = q[1].name
  /\ username' = field
  /\ stored' = [name |-> IF Valid THEN field ELSE own, secret |-> q[1].secret]
  /\ IF Valid THEN Launch(q) /\ dialog' = "closed" ELSE Answered(q) /\ UNCHANGED dialog
  /\ UNCHANGED <<trigger, field, password, accountVars, own, token>>

\* create_pbem_user: network_init takes the window's name, which is an older one
Created(q) ==
  /\ q[1].kind = "create"
  /\ stored' = [name |-> own, secret |-> q[1].secret]
  /\ dialog' = "closed" /\ Launch(q)
  /\ UNCHANGED <<trigger, field, password, accountVars, username, own, token>>

\* token_signin, answer "OK": the dialog closes itself, and its beforeClose
\* looks at the field and connects
Verified(q) ==
  /\ q[1].kind = "token"
  /\ token' = q[1].name
  /\ stored' = [stored EXCEPT !.name = IF dialog = "intro" /\ Valid THEN field ELSE q[1].name]
  /\ IF dialog = "intro"
     THEN /\ username' = field
          /\ IF Valid THEN dialog' = "closed" /\ Launch(q) ELSE UNCHANGED dialog /\ Answered(q)
     ELSE Answered(q) /\ UNCHANGED <<username, dialog>>
  /\ UNCHANGED <<trigger, field, password, accountVars, own>>

\* A name that is taken shuts the buttons; only an invited e-mail opens them.
Looked(q) ==
  /\ \/ q[1].kind \in {"name", "mail"} /\ enabled' = FALSE /\ UNCHANGED mail
     \/ q[1].kind = "name" /\ mail' = TRUE /\ UNCHANGED enabled
     \/ q[1].kind = "mail" /\ enabled' = TRUE /\ UNCHANGED mail
  /\ Answered(q)
  /\ UNCHANGED <<dialog, trigger, field, password, userVars>>

Fails(q) ==
  /\ dialog' = IF q[1].kind = "create" THEN "account" ELSE dialog
  /\ Answered(q)
  /\ UNCHANGED <<trigger, field, password, accountVars, userVars>>

Answer(q) ==
  /\ q[1].kind # "launch"
  /\ Unused(q) \/ InUse(q) \/ LoggedIn(q) \/ Created(q) \/ Verified(q) \/ Looked(q) \/ Fails(q)
  /\ UNCHANGED <<pageVars, socketVars, submits, messy, way>>

\* The launcher names a port, websocket_init; or it fails.
Launched(q) ==
  /\ q[1].kind = "launch" /\ Answered(q)
  /\ sockets' = Append(sockets, "connecting") \/ UNCHANGED sockets
  /\ UNCHANGED <<pageVars, dialogVars, userVars, polls, logins, submits, messy, way>>

-----------------------------------------------------------------------------
Ws == Len(sockets)

\* check_websocket_ready looks at the socket that was made last.
Ready ==
  IF sockets'[Ws] = "open"
  THEN /\ logins' = IF mode = "longturn" /\ token = None THEN logins
                    ELSE Append(logins, [name |-> username, secret |-> stored.secret])
       /\ UNCHANGED polls
  ELSE polls' = polls + 1 /\ UNCHANGED logins

Opens(i) ==
  /\ sockets[i] = "connecting" /\ sockets' = [sockets EXCEPT ![i] = "open"]
  /\ Ready
  /\ UNCHANGED <<pageVars, dialogVars, userVars, asked, submits, messy, way>>

Closes(i) ==
  /\ sockets[i] # "closed" /\ sockets' = [sockets EXCEPT ![i] = "closed"]
  /\ UNCHANGED <<pageVars, dialogVars, userVars, asked, polls, logins, submits, messy, way>>

PollAgain ==
  /\ polls > 0 /\ sockets[Ws] = "open" /\ sockets' = sockets
  /\ logins' = IF mode = "longturn" /\ token = None THEN logins
               ELSE Append(logins, [name |-> username, secret |-> stored.secret])
  /\ polls' = polls - 1
  /\ UNCHANGED <<pageVars, dialogVars, userVars, asked, submits, messy, way>>

-----------------------------------------------------------------------------
\* initCommonIntroDialog.  A name in the address connects at once, whatever it
\* is; an automatic start shows nothing.
Init ==
  /\ mode \in Modes /\ complete \in Pages
  /\ stored \in {[name |-> n, secret |-> s] : n \in {None} \cup Names, s \in {None}}
                \cup {[name |-> n, secret |-> n] : n \in Names}
  /\ dialog = IF mode \in {"plain", "longturn"} THEN "intro" ELSE "closed"
  /\ trigger = FALSE /\ field = stored.name /\ mail = FALSE
  /\ enabled = (stored.name = None \/ stored.secret = None)
  /\ password = IF mode = "plain" THEN stored.secret ELSE None
  /\ username \in IF mode = "hack" THEN Names \cup {Bad} ELSE {None}
  /\ own = None /\ token = None /\ asked = {}
  /\ sockets = IF mode = "hack" THEN <<"connecting">> ELSE <<>>
  /\ polls = 0 /\ logins = <<>>
  /\ submits = 0 /\ messy = FALSE /\ way = "none"

Next ==
  \/ \E text \in Names \cup {Bad} : Types(text)
  \/ \E name \in Names : TypesPassword(name)
  \/ Start \/ CloseIntro \/ SignIn
  \/ NewAccount \/ LeavesName \/ LeavesMail \/ CloseAccount \/ CancelAccount
  \/ \E name \in Names \cup {Bad} : Signup(name)
  \/ \E q \in asked : Answer(q) \/ Launched(q)
  \/ \E i \in DOMAIN sockets : Opens(i) \/ Closes(i)
  \/ PollAgain

Spec == Init /\ [][Next]_vars

-----------------------------------------------------------------------------
TypeOK ==
  /\ dialog \in {"intro", "account", "hidden", "closed"} /\ field \in Typed
  /\ \A q \in asked : q[1].kind \in Kinds
  /\ polls \in 0..MaxClicks /\ submits \in 0..MaxClicks

\* A name that was typed on the first page and is not valid never logs in,
\* whatever was typed or clicked while the answers were on their way.
NamesValid ==
  way \in {"button", "close", "token"} => \A i \in DOMAIN logins : logins[i].name \in Names

\* A visitor who waits for answers connects once, and with a button he connects
\* under the name whose password he gave.
ConnectsOnce ==
  ~messy => /\ Ws + Cardinality({q \in asked : q[1].kind = "launch"}) <= 1 /\ Len(logins) <= 1
            /\ way = "button" => \A i \in DOMAIN logins : logins[i].secret \in {None, logins[i].name}

\* A token that is used is that of the name which logs in.
TokenOfName == (way = "token" /\ ~messy) => \A i \in DOMAIN logins : logins[i].name = token

EntrySound == TypeOK /\ NamesValid /\ ConnectsOnce /\ TokenOfName
=============================================================================
