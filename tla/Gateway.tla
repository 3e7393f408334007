-------------------------------- MODULE Gateway --------------------------------
(***************************************************************************)
(* How a REST request gets to an endpoint: the routes of the gateway's     *)
(* ProxyController, tried in their order, and JwtAuthGuard, which judges   *)
(* the access token at the gateway and once more at the service.  A path   *)
(* is the sequence of its segments after /v1, with :id for any trip or     *)
(* notification; verbs, throttling and answers are left out.               *)
(***************************************************************************)
EXTENDS UserTable, Sequences

Route(prefix, wild, service, public) ==
  [prefix |-> prefix, wild |-> wild, service |-> service, public |-> public]

Routes == << Route(<<"auth">>,                 TRUE,  "auth",          TRUE),
             Route(<<"identity">>,             TRUE,  "identity",      FALSE),
             Route(<<"rides">>,                TRUE,  "rides",         FALSE),
             Route(<<"payments", "webhooks">>, TRUE,  "payments",      TRUE),
             Route(<<"payments">>,             TRUE,  "payments",      FALSE),
             Route(<<"location">>,             TRUE,  "location",      FALSE),
             Route(<<"drivers", "location">>,  FALSE, "location",      FALSE),
             Route(<<"drivers">>,              TRUE,  "rides",         FALSE),
             Route(<<"notifications">>,        TRUE,  "notifications", FALSE) >>

\* prefix/* wants something after the slash, so it does not match prefix.
Matches(route, path) ==
  IF route.wild
    THEN /\ Len(path) > Len(route.prefix)
         /\ SubSeq(path, 1, Len(route.prefix)) = route.prefix
    ELSE path = route.prefix

\* A set of at most one route: the first that matches.
RouteOf(path) ==
  {Routes[i] : i \in {j \in DOMAIN Routes :
     /\ Matches(Routes[j], path)
     /\ \A k \in 1 .. (j - 1) : ~Matches(Routes[k], path)}}

--------------------------------------------------------------------------------
\* The controllers behind the gateway; a controller's decorators are those of
\* its class, except that public names single methods.

Controller(service, base, kyc, roles, paths, public) ==
  {[service |-> service, path |-> base \o p, kyc |-> kyc, roles |-> roles,
    public |-> p \in public] : p \in paths \cup public}

AuthEndpoints ==
  Controller("auth", <<"auth">>, FALSE, {}, {<<"logout">>, <<"me">>},
             {<<"otp", "send">>, <<"otp", "verify">>, <<"refresh">>})

IdentityEndpoints ==
  Controller("identity", <<"identity">>, FALSE, {},
             {<<"documents">>, <<"status">>, <<"verify">>}, {})

RideEndpoints ==
  Controller("rides", <<"rides">>, TRUE, {},
             {<<"estimate">>, <<>>, <<"history", "list">>, <<":id">>,
              <<":id", "cancel">>}, {})

DriverEndpoints ==
  Controller("rides", <<"drivers">>, TRUE, {"driver"},
             {<<"profile">>, <<"status">>, <<"offers">>,
              <<"trips", ":id", "respond">>, <<"trips", "active">>,
              <<"trips", ":id", "advance">>, <<"trips", ":id", "status">>}, {})

PaymentEndpoints ==
  Controller("payments", <<"payments">>, TRUE, {},
             {<<"process">>, <<"wallet">>, <<"wallet", "topup">>, <<"refund">>,
              <<"history">>}, {})

WebhookEndpoints ==
  Controller("payments", <<"payments", "webhooks">>, FALSE, {}, {},
             {<<"click">>, <<"payme">>})

LocationEndpoints ==
  Controller("location", <<"location">>, TRUE, {},
             {<<"nearby-drivers">>, <<"route">>}, {})
  \cup Controller("location", <<"drivers", "location">>, TRUE, {"driver"}, {<<>>}, {})

NotificationEndpoints ==
  Controller("notifications", <<"notifications">>, FALSE, {},
             {<<"device">>, <<>>, <<":id", "read">>}, {})

Endpoints == AuthEndpoints \cup IdentityEndpoints \cup RideEndpoints
               \cup DriverEndpoints \cup PaymentEndpoints \cup WebhookEndpoints
               \cup LocationEndpoints \cup NotificationEndpoints

--------------------------------------------------------------------------------
\* A request without a token.
NoToken == [status |-> "none"]

\* JwtAuthGuard.canActivate on a token whose signature is good and which has
\* not expired, or on none.
Guard(token, roles, public, kyc, required) ==
  \/ public
  \/ /\ token # NoToken
     /\ required # {} => required \cap roles # {}
     /\ kyc => token.status = "active"

\* The gateway asks for a token and nothing else, and passes it on.
Reached(e, token, roles) ==
  \E route \in RouteOf(e.path) :
    /\ Guard(token, roles, route.public, FALSE, {})
    /\ route.service = e.service
    /\ Guard(token, roles, e.public, e.kyc, e.roles)

\* The endpoints a token gets to, by the status it claims, whatever its roles.
Admits == [status \in UserStatus \cup {"none"} |->
             {e \in Endpoints : Reached(e, [status |-> status],
                                        {"passenger", "driver"})}]
================================================================================
