----------------------------- MODULE EgressHeaders -----------------------------
(***************************************************************************)
(* The headers of an upstream request and of the client's answer: which    *)
(* pass, by the deny lists of HeaderForwardPolicy, and who has the last    *)
(* word on each (client, codec, provider credential, profile, gateway).    *)
(*                                                                         *)
(* A header name is a sequence of its words; a deny pattern is the sequence *)
(* of the parts between its stars, so "*request-id" is <<<<>>, <<"id">>>>. *)
(* A header map is a function from names to the one whose value stands     *)
(* there.                                                                  *)
(***************************************************************************)
EXTENDS Naturals, Sequences, SequencesExt

Absent == "absent"

Authorization == <<"authorization">>
ContentType   == <<"content", "type">>
Accept        == <<"accept">>
TraceParent   == <<"trace", "parent">>
Title         == <<"x", "title">>
SessionId     == <<"session", "id">>
Account       == <<"account", "id">>
Beta          == <<"beta">>
Version       == <<"anthropic", "version">>
Opencode      == <<"opencode", "session">>
Handshake     == <<"sec-websocket", "key">>
RequestId     == <<"x", "request-id">>
Custom        == <<"x", "custom">>
RetryAfter    == <<"retry", "after">>
Limits        == <<"x", "limits">>
CdnId         == <<"cf", "ray">>

RequestNames ==
  {Authorization, ContentType, Accept, TraceParent, Title, SessionId, Account,
   Beta, Version, Opencode, Handshake, RequestId, Custom}
ResponseNames ==
  {ContentType, TraceParent, RequestId, Custom, RetryAfter, Limits, CdnId}

NoHeaders == [n \in RequestNames |-> Absent]

--------------------------------------------------------------------------------
(* HeaderForwardPolicy *)

Exact(name) == <<name>>
Prefix(part) == <<part, <<>>>>
Suffix(part) == <<<<>>, part>>
Containing(part) == <<<<>>, part, <<>>>>

DefaultRequestDeny ==
  {Exact(Authorization), Exact(ContentType), Exact(TraceParent), Exact(Version),
   Prefix(<<"sec-websocket">>)}
DefaultResponseDeny ==
  {Exact(ContentType), Suffix(<<"request-id">>), Prefix(<<"cf">>),
   Containing(<<"trace">>)}

\* Where a part stands in a name, from a position on.
Occurrences(part, name, from) ==
  {p \in from..Len(name) :
     p + Len(part) <= Len(name) /\ SubSeq(name, p + 1, p + Len(part)) = part}

\* glob_match: every part is taken at its first place behind the parts before it
\* (the first one at the very start, unless a star comes first), and without a
\* star at the end the last part must end the name.  at[i] is where part i ends.
GlobMatch(parts, name) ==
  \E at \in [0..Len(parts) -> 0..Len(name)] :
    /\ at[0] = 0
    /\ \A i \in 1..Len(parts) :
         LET found == Occurrences(parts[i], name, at[i - 1])
             begin == at[i] - Len(parts[i])
         IN  IF parts[i] = <<>> THEN at[i] = at[i - 1]
             ELSE begin \in found /\ (\A p \in found : begin <= p) /\ (i = 1 => begin = 0)
    /\ Last(parts) # <<>> => at[Len(parts)] = Len(name)

Denied(deny, name) == \E parts \in deny : GlobMatch(parts, name)

ShouldForwardRequest(name, extra) == ~Denied(DefaultRequestDeny \cup extra, name)
ShouldForwardResponse(name, extra) == ~Denied(DefaultResponseDeny \cup extra, name)

--------------------------------------------------------------------------------
(* Requests *)

\* The client's headers fill what the codec left empty.
MergeClientHeaders(client, up, extra) ==
  [n \in RequestNames |->
     IF n \in client /\ ShouldForwardRequest(n, extra) /\ up[n] = Absent
     THEN "client" ELSE up[n]]

\* apply_provider_auth: an OAuth token, the registered provider's credential or
\* the target's key in the form of its protocol; then the provider's own extras.
ApplyProviderAuth(up, suite, opencode) ==
  LET keyed == [up EXCEPT ![Authorization] = "provider",
                          ![Version] = IF suite = "messages" THEN "provider" ELSE @]
  IN  IF opencode /\ keyed[Opencode] = Absent
      THEN [keyed EXCEPT ![Opencode] = "provider"] ELSE keyed

\* x-title and http-referer: the deny list, then the native profile, then the
\* client, then the gateway.
ApplyIdentity(client, up, extra, native, declared) ==
  [up EXCEPT ![Title] =
     IF ~ShouldForwardRequest(Title, extra) THEN Absent
     ELSE IF native THEN (IF declared THEN @ ELSE Absent)
     ELSE IF Title \in client THEN "client"
     ELSE IF @ = Absent THEN "gateway" ELSE @]

IfMissing(up, name, who) == [up EXCEPT ![name] = IF @ = Absent THEN who ELSE @]

\* codex_oauth::apply_request_headers
ApplyCodexHeaders(up, websocket, session, account) ==
  LET accepted == IF websocket THEN up ELSE [up EXCEPT ![Accept] = "profile"]
      keyed == IF session THEN [accepted EXCEPT ![SessionId] = "profile"] ELSE accepted
  IN  IF account THEN IfMissing(keyed, Account, "profile") ELSE keyed

\* anthropic_oauth::apply_headers
ApplyAnthropicHeaders(up) ==
  [up EXCEPT ![Beta] = IF @ = "client" THEN "merged" ELSE "profile",
             ![Version] = "profile", ![SessionId] = "profile",
             ![Accept] = "profile"]

\* prepare_websocket_headers: an upgrade request has no entity.
ApplyWebsocketHeaders(up) ==
  [up EXCEPT ![ContentType] = Absent, ![Beta] = "gateway"]

\* inject_trace
InjectTrace(up) == [up EXCEPT ![TraceParent] = "gateway"]

--------------------------------------------------------------------------------
(* Answers *)

\* forward_upstream_resp_headers: the request id is always the gateway's.
ForwardResponseHeaders(names, extra) ==
  [n \in {m \in names : ShouldForwardResponse(m, extra)} \cup {RequestId} |->
     IF n = RequestId THEN "gateway" ELSE "provider"]

\* What an executor puts back after the policy.
KeepHeaders(kept, headers) ==
  [n \in DOMAIN headers \cup kept |-> IF n \in kept THEN "provider" ELSE headers[n]]

\* What the request log says the client of a stream received.
ForwardedForCapture(names, extra) ==
  {n \in names : ShouldForwardResponse(n, extra)} \cup {ContentType, RequestId}
================================================================================
