----------------------------- MODULE MCStartup -----------------------------
(* Instances of Startup: environments that differ from a sound one in the   *)
(* settings of the webhook, of the LLM, or of the rest.                     *)
EXTENDS Startup

Sound == [mode |-> "polling", host |-> "unset", path |-> "unset", secret |-> "unset",
          secrets |-> "sound", quiet |-> "differ",
          kind |-> "gemini", key |-> "given", zone |-> "known"]

Hooked == [Sound EXCEPT !.mode = "webhook", !.host = "given", !.path = "absolute", !.secret = "long"]

\* A sound webhook, or one setting of it missing or wrong.
WebhookEnvs == {Hooked, [Hooked EXCEPT !.host = "unset"], [Hooked EXCEPT !.host = "malformed"],
                [Hooked EXCEPT !.path = "unset"], [Hooked EXCEPT !.path = "relative"],
                [Hooked EXCEPT !.secret = "unset"], [Hooked EXCEPT !.secret = "short"]}
LLMEnvs == {[Sound EXCEPT !.kind = k, !.key = v] : k \in Kinds, v \in Keys}
OtherEnvs == {Sound, [Sound EXCEPT !.zone = "unknown"],
              [Sound EXCEPT !.quiet = "equal"], [Sound EXCEPT !.secrets = "unsound"]}
AllEnvs == WebhookEnvs \cup LLMEnvs \cup OtherEnvs

NoneRefusing == {}
\* google-genai: no client without a key.
EmptyRefused == {<<"gemini", "empty">>}
=============================================================================
