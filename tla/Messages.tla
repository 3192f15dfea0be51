------------------------------ MODULE Messages -------------------------------
(***************************************************************************)
(* What a guest is sent about one booking (guest-messaging, whatsapp, mail,*)
(* waiver-copy) and the links in it (tickets/ticket.service): tickets after*)
(* a booking, a payment, a change or on request, waiver links and copies,  *)
(* the photos.  A message is written from a row read before, goes out by   *)
(* two channels that may each fail, beside edits, other messages, restarts *)
(* and rotations of the secret that signs the links.                       *)
(***************************************************************************)
EXTENDS Integers, FiniteSets, FiniteSetsExt

CONSTANTS
  Senders,        \* bound: messages under way at once
  Terms,          \* what an edit may leave: total and deposit
  Contacts, NoPhone,   \* the guest's e-mail and phone, and the configuration: mail, who carries WhatsApp
  MaxSends, MaxEvents   \* bounds: messages begun; writes of the row and rotations

ASSUME MessagesAssumption == MaxEvents \in Nat \ {0} /\ \A t \in Terms : t.total \in Nat

VARIABLES
  row,            \* the booking: version counts its writes
  ticketSentAt,
  secret, previousSecret,   \* 0: none
  channels,       \* what is configured
  sender,         \* messages under way
  inbox,          \* history: what the guest received
  retired,        \* history: secrets a rotation gave up
  changedAt,      \* history: the version of the guest's last change
  missed,         \* history: a sender was cut, or reached the guest by no channel
  sends           \* how many were begun
messageVars == <<row, ticketSentAt, secret, previousSecret, channels, sender, inbox, retired, changedAt, missed, sends>>

Idle == [kind |-> "none"]

MessagesTypeOK ==
  /\ row.version \in 0..MaxEvents /\ row.paid >= 0
  /\ secret \in 1..MaxEvents /\ previousSecret \in 0..MaxEvents /\ previousSecret # secret
  /\ retired \subseteq 1..MaxEvents
  /\ \A s \in Senders : sender[s] # Idle => /\ sender[s].todo \subseteq {"email", "whatsapp"}
                                            /\ sender[s].sent \intersect sender[s].todo = {}

(***************************************************************************)
(* A message, and who can be reached.                                      *)
(***************************************************************************)
\* A number of d digits after its prefix becomes one of 9 to 15, Mauritian ones with 230 before it.
normalise(p) ==
  LET digits == IF p.prefix \in {"+", "00"} THEN p.d ELSE IF p.d \in {7, 8} THEN p.d + 3 ELSE IF p.d >= 10 THEN p.d ELSE 0
  IN IF digits \in 9..15 THEN digits ELSE 0
mailEnabled == channels.mail
whatsappEnabled == channels.whatsapp # "off"
reachable(b) ==
  (IF b.email /\ mailEnabled THEN {"email"} ELSE {})
  \cup (IF b.phone # NoPhone /\ whatsappEnabled /\ normalise(b.phone) > 0 THEN {"whatsapp"} ELSE {})

balance(b) == Max({0, b.total - b.paid})

\* The four payment states, with what the guest is asked for and by when.
payText(b) ==
  IF b.paid >= b.total THEN [state |-> "paid", due |-> 0, rest |-> 0]
  ELSE IF b.deposit > b.paid THEN [state |-> "deposit", due |-> b.deposit - b.paid, rest |-> b.total - b.paid]
  ELSE [state |-> IF b.paid > 0 THEN "partial" ELSE "onArrival", due |-> 0, rest |-> b.total - b.paid]

token == secret

verify(t) == t = secret \/ (previousSecret # 0 /\ t = previousSecret)

\* The links each message carries.  Only Twilio has the whole text of a ticket; the approved templates have its button alone.
templated(channel) == channel = "whatsapp" /\ channels.whatsapp = "360dialog"
renderTicketEmail == {"ticket", "waiver"}
ticketWhatsApp == IF templated("whatsapp") THEN {"ticket"} ELSE {"ticket", "waiver"}
renderWaiverLinkEmail == {"waiver"}
photosReady == {"ticket"}
renderCopy == {"pdf"}
documentPayload == renderCopy \cup (IF templated("whatsapp") THEN {"ticket"} ELSE {})

links(kind, channel) ==
  CASE kind = "waiver" -> renderWaiverLinkEmail
    [] kind = "photos" -> photosReady
    [] kind = "copy" -> IF channel = "whatsapp" THEN documentPayload ELSE renderCopy
    [] kind = "ticket" -> IF channel = "whatsapp" THEN ticketWhatsApp ELSE renderTicketEmail

\* Written from b, in the secret of the moment.
Message(kind, b) ==
  [kind |-> kind, row |-> b, todo |-> reachable(b), sent |-> {}, signed |-> token, step |-> "send"]

MessagesInit ==
  /\ \E t \in Terms, c \in Contacts : /\ channels = c.setup
     /\ row = [version |-> 0, total |-> t.total, deposit |-> t.deposit, paid |-> 0, email |-> c.email, phone |-> c.phone, status |-> "confirmed"]
  /\ ticketSentAt = FALSE /\ secret = 1 /\ previousSecret = 0
  /\ sender = [s \in Senders |-> Idle] /\ inbox = {} /\ retired = {}
  /\ changedAt = 0 /\ missed = FALSE /\ sends = 0

Rest == <<secret, previousSecret, channels, retired>>
Begin(s, message) ==
  /\ sender[s] = Idle /\ sends < MaxSends /\ sends' = sends + 1 /\ sender' = [sender EXCEPT ![s] = message]
Written(b) == row.version + secret < MaxEvents /\ row' = [b EXCEPT !.version = row.version + 1]

(***************************************************************************)
(* What starts a message.                                                  *)
(***************************************************************************)
\* On request; right after booking the row is the one just saved.
resend(s, kind) ==
  /\ Begin(s, Message(kind, row))
  /\ UNCHANGED <<row, ticketSentAt, inbox, changedAt, missed>> /\ UNCHANGED Rest

\* The guest changes or cancels; what follows the answer reads the row when its turn comes.
guestChange(s, t, status) ==
  /\ row.status = "confirmed" /\ Written([row EXCEPT !.total = t.total, !.status = status])
  /\ Begin(s, [Message("ticket", row') EXCEPT !.step = "read"])
  /\ changedAt' = row'.version
  /\ UNCHANGED <<ticketSentAt, inbox, missed>> /\ UNCHANGED Rest

\* Mutant: the ticket is written from the row the request began with.
afterGuestChangeStale(s) ==
  /\ sender[s] # Idle /\ sender[s].step = "read"
  /\ LET before == [row EXCEPT !.version = Max({0, changedAt - 1})] IN
     sender' = [sender EXCEPT ![s] = [Message("ticket", before) EXCEPT !.step = "alert"]]

afterGuestChange(s) ==
  /\ sender[s] # Idle /\ sender[s].step = "read"
  /\ sender' = [sender EXCEPT ![s] = [Message("ticket", row) EXCEPT !.step = "alert"]]

ReadChanged(s) ==
  /\ afterGuestChange(s) /\ UNCHANGED <<row, ticketSentAt, inbox, changedAt, missed, sends>> /\ UNCHANGED Rest

\* The desk's e-mail first, sent or not; a cancelled booking gets no ticket.
notifyGuestChange(s) ==
  /\ sender[s] # Idle /\ sender[s].step = "alert"
  /\ sender' = [sender EXCEPT ![s] = IF @.row.status = "cancelled" THEN Idle ELSE Message("ticket", @.row)]
  /\ UNCHANGED <<row, ticketSentAt, inbox, changedAt, missed, sends>> /\ UNCHANGED Rest

\* Desk edits and takings send nothing.
deskEdit(t) ==
  /\ Written([row EXCEPT !.total = t.total])
  /\ UNCHANGED <<ticketSentAt, sender, inbox, changedAt, missed, sends>> /\ UNCHANGED Rest
deskTakes ==
  /\ row.status # "cancelled" /\ Written([row EXCEPT !.paid = @ + 1])
  /\ UNCHANGED <<ticketSentAt, sender, inbox, changedAt, missed, sends>> /\ UNCHANGED Rest

\* The ticket's task starts before the commit: it may read the row as it was.
sendTicketAfterCommit(s) ==
  /\ balance(row) > 0 /\ Written([row EXCEPT !.paid = row.total])
  /\ \E b \in {row, row'} : Begin(s, Message("ticket", b))
  /\ UNCHANGED <<ticketSentAt, inbox, changedAt, missed>> /\ UNCHANGED Rest

(***************************************************************************)
(* The channels.                                                           *)
(***************************************************************************)
Received(m, channel) ==
  [kind |-> m.kind, channel |-> channel, version |-> m.row.version, signed |-> m.signed, links |-> links(m.kind, channel)]

\* Each channel answers whether it sent, and never throws.
sendMail(message, ok) == IF ok THEN inbox \cup {Received(message, "email")} ELSE inbox
sendWhatsApp(message, ok) == IF ok THEN inbox \cup {Received(message, "whatsapp")} ELSE inbox

deliver(s, channel, ok) ==
  /\ sender[s] # Idle /\ sender[s].step = "send" /\ channel \in sender[s].todo
  /\ sender' = [sender EXCEPT ![s].todo = @ \ {channel}, ![s].sent = IF ok THEN @ \cup {channel} ELSE @]
  /\ inbox' = IF channel = "email" THEN sendMail(sender[s], ok) ELSE sendWhatsApp(sender[s], ok)
  /\ UNCHANGED <<row, ticketSentAt, changedAt, missed, sends>> /\ UNCHANGED Rest

MarkSent(m) == ticketSentAt' = (ticketSentAt \/ (m.kind = "ticket" /\ m.sent # {}))

finish(s) ==
  /\ sender[s] # Idle /\ sender[s].step = "send" /\ sender[s].todo = {}
  /\ MarkSent(sender[s]) /\ sender' = [sender EXCEPT ![s] = Idle]
  /\ missed' = (missed \/ sender[s].sent = {})
  /\ UNCHANGED <<row, inbox, changedAt, sends>> /\ UNCHANGED Rest

\* A statement of it fails, and the failure is logged.
cut(s) ==
  /\ sender[s] # Idle /\ sender' = [sender EXCEPT ![s] = Idle] /\ missed' = TRUE
  /\ UNCHANGED <<row, ticketSentAt, inbox, changedAt, sends>> /\ UNCHANGED Rest

\* Redeployed with a new secret, the old one kept or not: what was under way is lost.
rotate(keep) ==
  /\ row.version + secret < MaxEvents /\ secret' = secret + 1 /\ previousSecret' = (IF keep THEN secret ELSE 0)
  /\ retired' = (1..secret) \ (IF keep THEN {secret} ELSE {})
  /\ sender' = [s \in Senders |-> Idle]
  /\ missed' = (missed \/ \E s \in Senders : sender[s] # Idle)
  /\ UNCHANGED <<row, ticketSentAt, channels, inbox, changedAt, sends>>

MessagesNext ==
  \/ \E s \in Senders :
       \/ \E kind \in {"ticket", "waiver", "photos", "copy"} : resend(s, kind)
       \/ sendTicketAfterCommit(s)
       \/ \E t \in Terms, status \in {"confirmed", "cancelled"} : guestChange(s, t, status)
       \/ ReadChanged(s) \/ notifyGuestChange(s)
       \/ \E channel \in {"email", "whatsapp"}, ok \in BOOLEAN : deliver(s, channel, ok)
       \/ finish(s) \/ cut(s)
  \/ \E t \in Terms : deskEdit(t)
  \/ deskTakes
  \/ \E keep \in BOOLEAN : rotate(keep)

-----------------------------------------------------------------------------
(* A link the guest was ever sent opens exactly until the rotation that    *)
(* gives its secret up, in whatever message and by whatever channel it came*)
(* (ticket.service: "links signed with it still verify").                  *)
LinksOpen == \A m \in inbox : m.links # {} /\ (verify(m.signed) <=> m.signed \notin retired)

(* ticket_sent_at says that a ticket reached the guest: never without one, *)
(* and, once nothing is under way and no sender was cut, whenever one did, *)
(* although two are sent at once and edits fall between (sendTicket).      *)
Quiet == \A s \in Senders : sender[s] = Idle
MarkedIfTold ==
  LET reached == \E m \in inbox : m.kind = "ticket" IN
  (ticketSentAt => reached) /\ (Quiet /\ ~missed /\ reached => ticketSentAt)

(* A guest who changed a booking has, once all is sent, a ticket that tells*)
(* the change or something later, unless the booking was cancelled or a    *)
(* message was lost (afterGuestChange).                                    *)
CaughtUp ==
  Quiet /\ ~missed /\ row.status # "cancelled" /\ changedAt > 0 =>
    \E m \in inbox : m.kind = "ticket" /\ m.version >= changedAt

(* What a ticket asks for and what its page shows as balance are the same  *)
(* amount, and nobody who owes is told they paid, whatever was paid of     *)
(* whatever total, a deposit asked for or not (payText, toView).           *)
AsksTheBalance ==
  \A total, paid \in 0..3 : \A deposit \in 0..total :
    LET b == [total |-> total, paid |-> paid, deposit |-> deposit] IN
    /\ payText(b).rest = balance(b) /\ payText(b).due <= balance(b)
    /\ payText(b).state = "paid" <=> balance(b) = 0

MessagesHold == LinksOpen /\ MarkedIfTold /\ CaughtUp /\ AsksTheBalance
=============================================================================
