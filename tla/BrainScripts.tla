---------------------------- MODULE BrainScripts ----------------------------
(***************************************************************************)
(* The scripts of four acceptance tests as data for BrainTest: the one of  *)
(* cf_usb_helper.rb with the MySQL server, the one of minibroker_helper.rb *)
(* and the ones of the insecure registry and of the NFS volumes.  Commands *)
(* that only print or look are left out; several that set up one thing are *)
(* one step.                                                               *)
(***************************************************************************)
EXTENDS Naturals, Sequences

CONSTANTS MaxTries

Tests == {"usb", "minibroker", "registry", "nfs"}
ThrownTests == {"minibroker"}
Resources == {"org", "space", "secgroup", "server", "domain", "namespace",
             "release", "service", "broker", "app", "uploader",
             "nfsServer", "volumeClaim", "access", "volume"}
ExclusiveResources == {"domain", "broker", "nfsServer"}
Leftovers == {"domain", "nfsServer"}

Dependencies ==
  [r \in Resources |->
     CASE r = "space" -> {"org"}
       [] r \in {"server", "app", "uploader"} -> {"space"}
       [] r = "service" -> {"space", "release"}
       [] r = "broker" -> {"release"}
       [] r = "release" -> {"namespace"}
       [] r = "nfsServer" -> {"volumeClaim"}
       [] r = "volume" -> {"space", "access"}
       [] OTHER -> {}]

\* Steps.  Fields that an op does not use have any value.
Step(op) == [op |-> op, on |-> {}, handler |-> "timer", tries |-> 1]
RegisterAtExit(h) == [Step("atExit") EXCEPT !.handler = h]
Run(S) == [Step("run") EXCEPT !.on = S]
Retry(S) == [Run(S) EXCEPT !.tries = MaxTries]
Check == Run({})
Delete(r) == [Step("delete") EXCEPT !.on = {r}]
Deprovision(r) == [Step("deprovision") EXCEPT !.on = {r}]

Quietly(steps) == <<Step("quiet")>> \o steps \o <<Step("loud")>>

-----------------------------------------------------------------------------
(* The blocks of at_exit.                                                  *)

OrgHandler == Quietly(<<Delete("space"), Delete("org")>>)
SecgroupHandler == Quietly(<<Delete("secgroup")>>)
ServerHandler == Quietly(<<Delete("server")>>)
DomainHandler == Quietly(<<Delete("domain")>>)
SidecarHandler == Quietly(<<Delete("release"), Delete("namespace")>>)
ServiceHandler == Quietly(<<Delete("service")>>)
RegistriesHandler == Quietly(<<Delete("app"), Delete("domain")>>)

MinibrokerHandler ==
  Quietly(<<Deprovision("service"), Delete("secgroup"), Delete("broker"),
            Delete("release"), Delete("namespace")>>)

\* "set errxit: false": this block runs with errexit as it is.
UploadHandler == <<Delete("app"), Delete("uploader")>>

\* A body that fails before it has written the server's file leaves its name
\* undefined, and the block ends where it deletes the server: nothing of the
\* test is there then.
NfsHandler ==
  Quietly(<<Delete("app"), Delete("volume"), Delete("access"),
            Delete("nfsServer"), Delete("volumeClaim")>>)

Handlers == {"timer", "org", "secgroup", "server", "domain", "sidecar",
            "service", "minibroker", "registries", "upload", "nfs"}

Cleanings ==
  [h \in Handlers |->
     CASE h = "timer" -> <<Step("disarm")>>
       [] h = "org" -> OrgHandler
       [] h = "secgroup" -> SecgroupHandler
       [] h = "server" -> ServerHandler
       [] h = "domain" -> DomainHandler
       [] h = "sidecar" -> SidecarHandler
       [] h = "service" -> ServiceHandler
       [] h = "minibroker" -> MinibrokerHandler
       [] h = "registries" -> RegistriesHandler
       [] h = "upload" -> UploadHandler
       [] h = "nfs" -> NfsHandler]

-----------------------------------------------------------------------------
(* The bodies.                                                             *)

UseGlobalTimeout == <<Step("arm"), RegisterAtExit("timer")>>

SetupOrgSpace == <<RegisterAtExit("org"), Run({"org"}), Run({"space"})>>

InitializeTcpRouting == <<RegisterAtExit("secgroup"), Run({"secgroup"})>>

\* The server's route is the first to ask for tcp_domain.
TcpDomain ==
  <<RegisterAtExit("domain")>> \o Quietly(<<Delete("domain")>>)
    \o <<Run({"domain"})>>

DeployServer ==
  <<RegisterAtExit("server"), Run({"server"})>> \o TcpDomain
    \o <<Retry({})>>

DeploySidecar ==
  <<RegisterAtExit("sidecar"), Run({"release", "namespace"}), Step("wait")>>

CreateService ==
  <<Check, RegisterAtExit("service"), Run({"service"}), Check>>

UsbScript ==
  UseGlobalTimeout \o <<Check>> \o SetupOrgSpace \o InitializeTcpRouting
    \o DeployServer \o DeploySidecar \o CreateService

MinibrokerScript ==
  <<Step("arm"), Check>> \o SetupOrgSpace
    \o <<RegisterAtExit("minibroker"), Run({"namespace"}),
         Retry({"release"}), Retry({"broker"}), Run({"secgroup"}),
         Retry({"service"}), Check, Step("wait"), Check>>

RegistryScript ==
  <<Check>> \o SetupOrgSpace
    \o <<RegisterAtExit("secgroup"), Run({"secgroup"}),
         RegisterAtExit("registries")>> \o Quietly(<<Delete("domain")>>)
    \o <<Run({"domain"}), RegisterAtExit("upload"),
         Run({"app", "uploader"}), Retry({}), Check>>

NfsScript ==
  UseGlobalTimeout \o <<Check>> \o SetupOrgSpace
    \o <<RegisterAtExit("nfs"), Check>> \o Quietly(<<Delete("nfsServer")>>)
    \o <<Run({"nfsServer", "volumeClaim"}), Step("wait"), Check,
         RegisterAtExit("secgroup"), Run({"secgroup"}), Run({"app"}),
         Run({"access"}), Run({"volume"}), Check>>

Scripts ==
  [t \in Tests |->
     CASE t = "usb" -> UsbScript
       [] t = "minibroker" -> MinibrokerScript
       [] t = "registry" -> RegistryScript
       [] t = "nfs" -> NfsScript]
=============================================================================
