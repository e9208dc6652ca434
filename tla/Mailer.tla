------------------------------- MODULE Mailer -------------------------------
(***************************************************************************)
(* packages/mailer: from the settings or the DSN to a driver (settings.ts, *)
(* dsn.ts), the SMTP dialogue of drivers/smtp.ts, the HTTP drivers         *)
(* (resend.ts, brevo.ts), and the retries of mailer.ts around them.  The   *)
(* relay answers as it likes, late or not at all.                          *)
(***************************************************************************)
EXTENDS Integers, Sequences, FiniteSets

CONSTANTS Setups,       \* how a host composes its mailer: see DriverOf
          Recipients,   \* how many to, cc and bcc addresses the message has
          Attempts      \* RetryOptions.attempts

NoDriver == [kind |-> "invalid"]

\* A host that makes its driver itself has no DSN; the attempts count the first one
ASSUME MailerAssumption ==
    /\ \A s \in Setups : /\ s.direct => s.dsn = {}
                         /\ s.driver \in {"capture", "smtp", "resend", "brevo"}
    /\ Attempts \in Nat \ {0}

VARIABLES driver,       \* the composed driver, or NoDriver
          setup, mail

mailVars == <<driver, setup, mail>>

-----------------------------------------------------------------------------
(* Composition                                                             *)

PlaintextAllowed(options) == options.allowPlaintext \/ options.loopback

ValidSmtpOptions(options) == options.mode /= "none" \/ PlaintextAllowed(options)

Smtp(user, mode, loopback, allow) ==
    [kind |-> "smtp", user |-> user, mode |-> mode, loopback |-> loopback, allowPlaintext |-> allow]

\* providerBaseUrl: the key goes over https, or to a loopback stub
Provider(key, url) == IF key /\ url \in {"default", "https", "http loopback"} THEN [kind |-> "api", url |-> url] ELSE NoDriver

\* parseMailerDsn and driverFromDsn
FromDsn(dsn) ==
    CASE dsn.scheme \in {"resend+api", "brevo+api"} -> Provider(dsn.user, dsn.url)
      [] dsn.scheme \in {"smtp", "smtps", "resend+smtp"} ->
            LET options == Smtp(dsn.user, IF dsn.scheme = "smtp" THEN "starttls" ELSE "implicit", dsn.loopback, dsn.allowPlaintext) IN
            IF (dsn.password /\ ~dsn.user) \/ ~ValidSmtpOptions(options) THEN NoDriver ELSE options
      [] OTHER -> NoDriver

\* driverFromSettings: a DSN wins against everything else
FromSettings(settings) ==
    IF settings.dsn /= {} THEN FromDsn(CHOOSE d \in settings.dsn : TRUE)
    ELSE CASE settings.driver = "capture" -> [kind |-> "capture"]
           [] settings.driver \in {"resend", "brevo"} -> Provider(settings.key, settings.url)
           [] settings.driver = "smtp" ->
                 LET options == Smtp(settings.user, settings.mode, settings.loopback, settings.allowPlaintext) IN
                 IF settings.host /\ ValidSmtpOptions(options) THEN options ELSE NoDriver

\* A host may also call makeSmtpDriver itself: the constructor is total
DriverOf(s) == IF s.direct THEN Smtp(s.user, s.mode, s.loopback, s.allowPlaintext) ELSE FromSettings(s)

NoMail == [stage |-> "new", secure |-> FALSE, auth |-> {}, starttls |-> FALSE, rcpt |-> 0, attempt |-> 0,
           accepted |-> 0, clear |-> {}, outcome |-> "none"]

MailInit == setup \in Setups /\ driver = DriverOf(setup) /\ mail = NoMail

-----------------------------------------------------------------------------
(* mailer.ts: attempts                                                     *)

\* One connection per attempt; implicit TLS speaks TLS from the first byte
Attempt ==
    /\ driver /= NoDriver
    /\ mail.stage = "new"
    /\ mail' = [mail EXCEPT !.stage = CASE driver.kind = "smtp" -> "greeting" [] driver.kind = "api" -> "request" [] driver.kind = "capture" -> "capture",
                            !.attempt = @ + 1, !.auth = {}, !.starttls = FALSE, !.rcpt = 0,
                            !.secure = driver.kind = "smtp" /\ driver.mode = "implicit"]
    /\ UNCHANGED <<driver, setup>>

\* retrySchedule: MailDeliveryFailed while attempts are left, MailRejected never.  The session is closed.
Transient(m) == IF m.attempt < Attempts THEN [m EXCEPT !.stage = "new"] ELSE [m EXCEPT !.stage = "done", !.outcome = "failed"]
Failed(permanent) == mail' = IF permanent THEN [mail EXCEPT !.stage = "done", !.outcome = "rejected"] ELSE Transient(mail)

Sent == mail' = [mail EXCEPT !.stage = "done", !.outcome = "sent"]

-----------------------------------------------------------------------------
(* smtp.ts                                                                 *)

\* assertExpected and the timeouts: 5yz is permanent, everything else that was not expected transient
Unexpected == \E permanent \in BOOLEAN : Failed(permanent)

Goes(stage) == mail' = [mail EXCEPT !.stage = stage]
Command(stage, onExpected) ==
    /\ mail.stage = stage
    /\ onExpected \/ Unexpected
    /\ UNCHANGED <<driver, setup>>

Greeting == Command("greeting", Goes("ehlo"))

\* ehlo replaces what an earlier one announced; STARTTLS is taken up once, if offered
Ehlo ==
    Command("ehlo", \E starttls \in BOOLEAN, auth \in SUBSET {"PLAIN", "LOGIN"} :
        mail' = [mail EXCEPT !.starttls = starttls, !.auth = auth,
                             !.stage = IF driver.mode = "starttls" /\ starttls /\ ~mail.secure THEN "starttls" ELSE "policy"])

StartTls == Command("starttls", Goes("upgrade"))

\* upgradeTls: the handshake, then EHLO again.  It fails as a transport failure does.
UpgradeTls ==
    /\ mail.stage = "upgrade"
    /\ \/ mail' = [mail EXCEPT !.secure = TRUE, !.stage = "ehlo"]
       \/ Failed(FALSE)
    /\ UNCHANGED <<driver, setup>>

\* Mutant: TLS is opportunistic, a relay that does not offer it is spoken to in the clear.
SecureEnoughOpportunistic == mail.secure \/ driver.mode = "starttls" \/ PlaintextAllowed(driver)

SecureEnough == mail.secure \/ PlaintextAllowed(driver)

\* The end of `start`, and the choice of the mechanism in `deliver`
Policy ==
    /\ mail.stage = "policy"
    /\ IF ~SecureEnough \/ (driver.user /\ mail.auth = {}) THEN Failed(TRUE)
       ELSE Goes(IF ~driver.user THEN "mail" ELSE IF "PLAIN" \in mail.auth THEN "plain" ELSE "login")
    /\ UNCHANGED <<driver, setup>>

\* What is written before the reply to it is awaited
Writes(what, stage) == mail' = [mail EXCEPT !.stage = stage, !.clear = IF mail.secure THEN @ ELSE @ \cup {what}]

AuthPlain == mail.stage = "plain" /\ Writes("credentials", "authenticating") /\ UNCHANGED <<driver, setup>>
AuthLogin == Command("login", Writes("credentials", "authenticating"))
Authenticated == Command("authenticating", Goes("mail"))

MailFrom == Command("mail", Goes("rcpt"))
RcptTo ==
    Command("rcpt", mail' = [mail EXCEPT !.rcpt = @ + 1, !.stage = IF mail.rcpt + 1 = Recipients THEN "data" ELSE "rcpt"])
Data == Command("data", Writes("message", "body"))

\* The relay takes the message, or not; whether its answer arrives is another matter
Accepts(replies) ==
    LET taken == [mail EXCEPT !.accepted = @ + 1] IN mail' = IF replies THEN [taken EXCEPT !.stage = "quit"] ELSE Transient(taken)
Body ==
    /\ mail.stage = "body"
    /\ \/ \E replies \in BOOLEAN : Accepts(replies)
       \/ Unexpected
    /\ UNCHANGED <<driver, setup>>

\* QUIT's reply does not matter
Quit == mail.stage = "quit" /\ Sent /\ UNCHANGED <<driver, setup>>

-----------------------------------------------------------------------------
(* resend.ts, brevo.ts, capture.ts                                         *)

\* classify: 408, 425, 429 and 5xx are transient, everything else is final
Permanent(status) == status < 500 /\ status \notin {408, 425, 429}

\* A request without a response is transient too
ApiRequest ==
    /\ mail.stage = "request"
    /\ \/ \E replies \in BOOLEAN : Accepts(replies)
       \/ \E status \in {400, 401, 408, 422, 425, 429, 500, 503} : Failed(Permanent(status))
    /\ UNCHANGED <<driver, setup>>

Capture == mail.stage = "capture" /\ Accepts(TRUE) /\ UNCHANGED <<driver, setup>>

MailNext ==
    \/ Attempt \/ Greeting \/ Ehlo \/ StartTls \/ UpgradeTls \/ Policy
    \/ AuthPlain \/ AuthLogin \/ Authenticated \/ MailFrom \/ RcptTo \/ Data \/ Body \/ Quit
    \/ ApiRequest \/ Capture

MailSpec == MailInit /\ [][MailNext]_mailVars

-----------------------------------------------------------------------------
(* Properties                                                              *)

\* However a mailer was composed and whatever the relay offers or answers, in any of the attempts:
\* neither credentials nor a message are written to a socket in the clear unless the host named a
\* loopback relay or asked for it, and a provider's key goes over https; a send that succeeds was
\* accepted by the relay, and no relay holds more copies of it than attempts were made.
MailIsDiscreetAndHonest ==
    /\ mail.clear /= {} =>
          \/ setup.dsn = {} /\ (setup.allowPlaintext \/ setup.loopback)
          \/ \E d \in setup.dsn : d.allowPlaintext \/ d.loopback
    /\ driver.kind = "api" => driver.url /= "http"
    /\ mail.outcome = "sent" => mail.accepted > 0
    /\ mail.accepted <= mail.attempt /\ mail.attempt <= Attempts
=============================================================================
