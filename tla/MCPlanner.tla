-------------------------------- MODULE MCPlanner --------------------------------
(* Small instances of Planner: two sites, two API versions, two bindings. *)
EXTENDS Planner

RawURL(site, slash) == [site |-> site, slash |-> slash]

Written(mode, url, api, existing) ==
    [secret |-> FALSE, mode |-> mode, url |-> url, events |-> {"paid"}, api |-> api,
     desc |-> "", existing |-> existing, policy |-> "test", publishable |-> TRUE]

Public == {Written("public", RawURL(s, slash), api, 0) :
              s \in {"app", "api"}, slash \in BOOLEAN, api \in {"v1", "v2"}}
Existing == {Written("existing", url, "v1", 1) : url \in {NoURL, RawURL("app", FALSE)}}
Typical == Written("public", RawURL("app", FALSE), "v1", 0)
Invalids == {[Typical EXCEPT !.secret = TRUE], [Typical EXCEPT !.events = {}],
             [Typical EXCEPT !.api = Unpinned], [Typical EXCEPT !.policy = "live"],
             [Typical EXCEPT !.policy = ""], [Typical EXCEPT !.mode = "other"],
             [Typical EXCEPT !.url.site = "local"], [Typical EXCEPT !.url = NoURL],
             [Typical EXCEPT !.mode = "existing"]}

AllInputs == Public \cup Existing \cup Invalids
    \cup {[Typical EXCEPT !.publishable = FALSE], Written("local-forwarded", NoURL, "v1", 0)}

Both == {"runtime", "webhook-verification"}
SomeRequests ==
    [mode : {"development"}, billing : {TRUE}, references : {Both, {"runtime"}}]
    \cup [mode : {"development", "production"}, billing : {FALSE}, references : {{}}]

Body(binding, site, slash, api) ==
    [url |-> RawURL(site, slash), events |-> {"paid"}, api |-> api, desc |-> "billing",
     status |-> "enabled", meta |-> [binding |-> binding, resource |-> binding # NoBinding]]

Bodies == {Body("ours", "app", FALSE, "v1"), Body("ours", "app", FALSE, "v2"),
           Body("theirs", "app", FALSE, "v1"), Body(NoBinding, "app", TRUE, "v1"),
           Body(NoBinding, "api", FALSE, "v1")}

UpToTwo == {<<>>} \cup {<<[id |-> 1, body |-> b]>> : b \in Bodies}
    \cup {<<[id |-> 2, body |-> b], [id |-> 1, body |-> c]>> : b \in Bodies, c \in Bodies}
================================================================================
