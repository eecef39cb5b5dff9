------------------------------- MODULE Notices -------------------------------
(***************************************************************************)
(* What a message to a destination is made of: the addresses a destination *)
(* may have, the failures of a send and the codes they are stored as, the  *)
(* words of a message and the body each tool takes.  All of it is pure;    *)
(* Messages says when it is done and on what.                              *)
(*                                                                         *)
(* Words are one of Words: what matters of them is whether a tool would    *)
(* read a mention in them.  An address is a record of the parts the code   *)
(* looks at.                                                               *)
(***************************************************************************)
EXTENDS StatusRules, Sequences

Tools == {"teams", "slack", "google_chat", "discord", "mattermost", "ntfy", "email", "webhook"}
Boxes == {"incident", "maintenance", "publication", "detected"}

-----------------------------------------------------------------------------
(* Destinations                                                            *)

NeedsHttps(tool) == tool \in {"teams", "slack", "google_chat", "discord"}

(* A bare topic lives on the public ntfy server.                           *)
Url(scheme, segments) ==
  [form |-> "url", scheme |-> scheme, credentials |-> FALSE, segments |-> segments, mails |-> {}]
CompletedTarget(tool, target) ==
  IF tool = "ntfy" /\ target.form = "topic" THEN Url("https", <<"topic">>) ELSE target

HasTopic(segments) == \E i \in DOMAIN segments : segments[i] # ""

(* An address of a mail is one both sides read, one the mailer cannot      *)
(* write though the form takes it, or a typo.                              *)
EmailsAllowed(target) ==
  target.form = "mails" /\ target.mails # {} /\ "typo" \notin target.mails

DestinationAllowed(tool, target) ==
  IF tool = "email" THEN EmailsAllowed(target)
  ELSE /\ target.form = "url" /\ target.scheme \in {"http", "https"}
       /\ ~target.credentials
       /\ NeedsHttps(tool) => target.scheme = "https"
       /\ tool = "ntfy" => HasTopic(target.segments)

(* What the form asks to reach, checked: all a test needs.                 *)
Destination(f, mailReady) ==
  /\ f.tool \in Tools /\ (f.tool = "email" => mailReady)
  /\ DestinationAllowed(f.tool, CompletedTarget(f.tool, f.target))
Check(f, mailReady) == f.name # "" /\ Destination(f, mailReady)
ChannelOf(f) ==
  [name |-> f.name, tool |-> f.tool, target |-> CompletedTarget(f.tool, f.target), boxes |-> f.boxes]

-----------------------------------------------------------------------------
(* Failures                                                                *)

Failure(what, status) == [what |-> what, status |-> status]
NoStatus == 0
Findings == {"refused", "timed_out", "name_not_found", "name_server_silent", "no_route",
             "certificate", "too_many_redirects", "unreachable"}

(* What a tool answered, and what a mail server did.                       *)
PostFailure(answer) ==
  CASE answer.status \in 300..399 -> Failure("redirected", NoStatus)
    [] answer.status = 429 -> Failure("too_many_requests", NoStatus)
    [] answer.status = NoStatus -> Failure(answer.finding, NoStatus)
    [] OTHER -> Failure("status", answer.status)
ClassifySmtp(answer) ==
  CASE answer.finding = "permanent" -> Failure("mail_refused", answer.status)
    [] answer.finding = "transient" -> Failure("mail_busy", answer.status)
    [] answer.finding = "timed_out" -> Failure("timed_out", NoStatus)
    [] OTHER -> Failure("mail_unreachable", NoStatus)

(* The code a failure is stored as, and the failure a code stands for.     *)
TransportCode(finding) == IF finding = "too_many_redirects" THEN "unreachable" ELSE finding
Code(f) ==
  [word |-> IF f.what \in Findings THEN TransportCode(f.what) ELSE f.what,
   status |-> IF f.what \in {"status", "mail_refused", "mail_busy"} THEN f.status ELSE NoStatus]
Unknown == Failure("unknown", NoStatus)
FromCode(code) ==
  CASE code.word = "status" -> Failure("status", code.status)
    [] code.word = "mail_refused" -> Failure("mail_refused", code.status)
    [] code.word = "mail_busy" -> Failure("mail_busy", code.status)
    [] code.word \in (Findings \ {"too_many_redirects"}) \cup
         {"too_many_requests", "redirected", "unsupported", "gone", "mail_unreachable",
          "no_mail_server", "expired", "no_page_address"} ->
         Failure(code.word, NoStatus)
    [] OTHER -> Unknown

IsPermanent(f) ==
  \/ f.what = "status" /\ f.status \in 400..499 /\ f.status \notin {408, 429}
  \/ f.what \in {"redirected", "unsupported", "gone", "mail_refused", "no_mail_server",
                 "expired", "no_page_address"}

(* The words an administrator reads, by key and status.                    *)
TransportKey(finding) == IF finding = "too_many_redirects" THEN "unreachable" ELSE finding
FailureText(f) ==
  CASE f.what = "status" ->
         <<CASE f.status \in {404, 410} -> "not_found" [] f.status \in {401, 403} -> "forbidden"
             [] f.status >= 500 -> "server" [] OTHER -> "rejected", f.status>>
    [] f.what \in Findings -> <<TransportKey(f.what), NoStatus>>
    [] OTHER -> <<f.what, f.status>>

-----------------------------------------------------------------------------
(* The message                                                             *)

Words == {"plain", "@", "<!"}

StateTone(kind, severity, lifecycle) ==
  CASE kind = "incident" /\ lifecycle \in {"investigating", "in_progress"} ->
         IF severity = "critical" THEN "crit" ELSE "minor"
    [] lifecycle \in {"monitoring", "resolved", "completed"} -> "ok"
    [] kind = "maintenance" /\ lifecycle \in {"scheduled", "in_progress"} -> "info"
    [] kind = "publication" -> "ink"
    [] OTHER -> "neutral"
MarkOf(tone) ==
  CASE tone = "crit" -> "outage" [] tone = "minor" -> "degraded" [] tone = "info" -> "maintenance"
    [] tone = "ok" -> "restored" [] OTHER -> "plain"

(* Where the event stands: its state, with its window or how long it took. *)
StateLine(happening, lifecycle, e) ==
  CASE happening = "opened" /\ e.kind = "maintenance" /\ e.window # None -> <<"scheduled", e.window>>
    [] happening = "rescheduled" -> <<"rescheduled", e.window>>
    [] happening = "started" /\ e.window # None -> <<lifecycle, "ends">>
    [] happening = "closed" /\ e.ended -> <<lifecycle, "after">>
    [] happening = "updated" /\ lifecycle = None -> <<"update", None>>
    [] happening = "reviewed" -> <<"review", None>>
    [] OTHER -> <<lifecycle, None>>

NoWords == "nothing"
TextOf(happening, message, e) ==
  CASE message # NoWords -> message
    [] message = NoWords /\ happening \in {"opened", "published", "started"} -> e.description
    [] OTHER -> NoWords

EventNotice(happening, lifecycle, e, message, page) ==
  [mark |-> MarkOf(StateTone(e.kind, e.severity, lifecycle)), headline |-> e.title,
   state |-> StateLine(happening, lifecycle, e), services |-> e.service,
   text |-> TextOf(happening, message, e), link |-> IF page = None THEN None ELSE "event"]
TestNotice ==
  [mark |-> "plain", headline |-> "plain", state |-> <<None, None>>, services |-> NoWords,
   text |-> "plain", link |-> "page"]

(* The services a wave found down or back, the first of them leading.      *)
ServiceNotice(happening, names, page) ==
  [mark |-> IF happening = "service_up" THEN "restored" ELSE "outage",
   headline |-> IF Len(names) = 1 THEN names[1] ELSE "plain",
   state |-> <<happening, IF Len(names) = 1 THEN "one" ELSE "wave">>,
   services |-> IF Len(names) = 1 THEN NoWords ELSE names[1],
   text |-> NoWords, link |-> IF page = None THEN None ELSE "page"]

(* The facts a tool reads in place of the words.                           *)
Facts(happening, lifecycle, e) ==
  [happening |-> happening, kind |-> e.kind, severity |-> e.severity, state |-> lifecycle]

NoFacts(happening) ==
  [happening |-> happening, kind |-> None, severity |-> None, state |-> None]

-----------------------------------------------------------------------------
(* The bodies                                                              *)

EscapeSlack(t) == IF t = "<!" THEN "&lt;!" ELSE t
DefuseMentions(t) == CASE t = "@" -> "@ " [] t = "<!" -> "< !" [] OTHER -> t
AsWritten(t) == t
Readable(t) == CASE t = "&lt;!" -> "<!" [] t = "@ " -> "@" [] t = "< !" -> "<!" [] OTHER -> t

MarkEmoji(mark) == IF mark = "plain" THEN None ELSE mark
Marked(n, escaped(_)) ==
  [n EXCEPT !.headline = escaped(@), !.mark = MarkEmoji(@)]
Lines(n, escaped(_)) ==
  [Marked(n, escaped) EXCEPT !.services = escaped(@), !.text = escaped(@)]

SlackBody(n) == Lines(n, EscapeSlack)
MattermostBody(n) == Lines(n, DefuseMentions)
DiscordBody(n) == Lines(n, AsWritten)
TeamsBody(n) == Lines(n, AsWritten)
NtfyBody(n) ==
  LET body == Lines(n, AsWritten)
  IN  [body EXCEPT !.text = IF n.state = <<None, None>> /\ n.services = NoWords /\ n.text = NoWords
                            THEN n.headline ELSE @]
WebhookBody(n) == n
EmailBody(n) == Lines(n, AsWritten)

(* A request to the server root of an ntfy address names its last segment. *)
NtfyTopic(segments) ==
  LET named == {i \in DOMAIN segments : segments[i] # ""}
  IN  IF named = {} THEN "" ELSE segments[CHOOSE i \in named : \A j \in named : j <= i]
CanPost(tool, target) ==
  IF tool = "ntfy" THEN NtfyTopic(target.segments) # "" ELSE tool # "email"
Body(tool, n) ==
  CASE tool \in {"slack", "google_chat"} -> SlackBody(n)
    [] tool = "mattermost" -> MattermostBody(n) [] tool = "discord" -> DiscordBody(n)
    [] tool = "teams" -> TeamsBody(n) [] tool = "ntfy" -> NtfyBody(n)
    [] tool = "webhook" -> WebhookBody(n) [] tool = "email" -> EmailBody(n)

(* What a tool reads as a mention in words it is given; Discord is told to *)
(* read none.                                                              *)
Fires(tool, t) ==
  \/ tool \in {"slack", "google_chat"} /\ t = "<!"
  \/ tool = "mattermost" /\ t \in {"@", "<!"}
=============================================================================
