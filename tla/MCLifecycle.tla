---------------------------- MODULE MCLifecycle ----------------------------
(* A small instance of Lifecycle: configurations with one flaw each, one   *)
(* per check of validate and of Runtime::new, and three that are accepted. *)
EXTENDS Lifecycle

CONSTANTS r1

MCRequests == {r1}
MCModels == {"sonnet-4", "haiku-4"}
MCSecrets == {"team", "tenant"}
MCKeys == {"k1", "k2"}
MCShortKeys == {"short"}

\* A key that is short or missing, and the value of a header that is.
MCVaults == {[team |-> team, tenant |-> tenant] :
               team \in {"k1", "short", "unset"}, tenant \in {"k1", "unset"}}

MCRotations == {<<"team", "k1">>, <<"team", "k2">>, <<"team", "short">>}

\* What a running process may find: two that it accepts, one that is no
\* longer the listener's, one that does not compile, and one that panics.
MCEdits == {"base", "moved", "listener", "glob", "huge"}

Target(provider, weight) == [provider |-> provider, weight |-> weight]

Route(id, models, targets) == [id |-> id, models |-> models, targets |-> targets]

Client(id, allowed) ==
    [id |-> id, key |-> "team", concurrent |-> 1, perMinute |-> 1, allowed |-> allowed]

Openai ==
    [id |-> "openai", endpoint |-> "https", insecure |-> FALSE, credential |-> "team",
     headers |-> {}]

Base ==
    [server |-> "one", concurrency |-> 2, attempts |-> 1,
     providers |-> <<Openai>>,
     routes |-> <<Route("sonnet", <<{"sonnet-4"}>>, <<Target("openai", 1), Target("openai", 2)>>),
                  Route("haiku", <<{"haiku-4"}>>, <<Target("openai", 1)>>)>>,
     clients |-> <<Client("engineering", {"sonnet"}), Client("second", {})>>]

\* The routes change places and match more, and the client may use the other.
Moved ==
    [Base EXCEPT !.routes = <<Route("haiku", <<{"haiku-4"}, {"sonnet-4"}>>,
                                    <<Target("openai", 1)>>)>>,
                 !.clients[1].allowed = {"haiku"}]

WithProvider(provider) == [Base EXCEPT !.providers = <<provider>>]

MCConfig ==
    [base     |-> Base,
     moved    |-> Moved,
     listener |-> [Base EXCEPT !.server = "two"],
     glob     |-> [Base EXCEPT !.routes[1].models = <<{"sonnet-4"}, BadGlob>>],
     huge     |-> [Base EXCEPT !.concurrency = MaxPermits + 1],
     plain    |-> WithProvider([Openai EXCEPT !.endpoint = "http", !.insecure = TRUE,
                                  !.headers = {[name |-> "plain", value |-> "tenant"]}]),
     noclients   |-> [Base EXCEPT !.clients = <<>>],
     noproviders |-> [Base EXCEPT !.providers = <<>>],
     noroutes    |-> [Base EXCEPT !.routes = <<>>],
     nopermits   |-> [Base EXCEPT !.concurrency = 0],
     noattempts  |-> [Base EXCEPT !.attempts = 0],
     twoproviders |-> [Base EXCEPT !.providers = <<Openai, Openai>>],
     nameless    |-> [Base EXCEPT !.routes[1].id = NoId],
     insecure    |-> WithProvider([Openai EXCEPT !.endpoint = "http"]),
     credentials |-> WithProvider([Openai EXCEPT !.endpoint = "credentials"]),
     forbidden   |-> WithProvider([Openai EXCEPT !.headers =
                                     {[name |-> "forbidden", value |-> "team"]}]),
     nomodels    |-> [Base EXCEPT !.routes[2].models = <<>>],
     notargets   |-> [Base EXCEPT !.routes[2].targets = <<>>],
     stray       |-> [Base EXCEPT !.routes[2].targets = <<Target("azure", 1)>>],
     weightless  |-> [Base EXCEPT !.routes[2].targets = <<Target("openai", 0)>>],
     noslots     |-> [Base EXCEPT !.clients[2].perMinute = 0],
     noconcurrency |-> [Base EXCEPT !.clients[2].concurrent = 0],
     unknownroute |-> [Base EXCEPT !.clients[1].allowed = {"opus"}]]

MCFiles == DOMAIN MCConfig
=============================================================================
