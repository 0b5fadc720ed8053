# SCF in TLA+

SCF packages Cloud Foundry as containers for Kubernetes.  Most of what runs in
a deployment is other projects' code; SCF's own logic is the glue that brings
such a deployment up and keeps it in shape: jobs that configure the UAA and the
cloud controller, scripts that run as a container boots, operators' tools, make
targets and the acceptance tests.  This directory specifies that glue, checks it
with TLC and proves most of its safety properties with TLAPS.  Paths below are
relative to the repository.

The common trait of the code is a shell script that works on shared state in
small calls, under `errexit` or not, while the other side goes away, another
copy of the script runs, or the script itself is killed and starts over.  That
is what the models keep.  What commands print, URLs, YAML and certificates are
left out, or are values from a small set.

## 1. Inventory

Modelled:

| Component | State | Operations | What is hard about it |
|---|---|---|---|
| uaa-create-user job (`src/scf-release/jobs/uaa-create-user`) | zone, groups, clients and secrets, administrator, memberships in the UAA; position, loop and `user_id` of each pod | one per call to the UAA | re-runs over what a former run left, two pods at a time, failing calls under `if`, `$(...)` and `errexit`, retry loops that give up and go on, upgrades |
| configure-scf job (`jobs/configure-scf`, `src/service-registration-utils`) | users, variable groups and service broker of the cloud controller; token, position and user list of each pod | one per `cf` call, and the two Ruby helpers | tokens that expire during a wait, a broker that exists already, paging, a UAA that is away while users are judged by whether they have a name |
| post-deployment-setup (`role-manifest.yml`) | that of the two jobs, which one runs | the steps of the two jobs, one after the other | a pod that fails late begins with the first job again, one upgrade later |
| log forwarding (`container-host-files/etc/scf/config/scripts/forward_logfiles.sh`) | crontab, configuration files, what rsyslogd has read, monit's pending action | boot, cron's runs, the search, the restart | runs that overlap, log files that appear at any time, the gap in which rsyslogd starts, a restart that monit refuses |
| MySQL bootstrap (`bin/set_mysql_bootstrap_node.sh`) | data, grastate.dat, log and state.txt of each Galera pod; the script's lists | one per `kubectl exec` | a cluster that goes on while pods are stopped one by one, positions that are old, failing calls that shift lists |
| make deployment targets (`make/run`, `stop`, `upgrade`, `wait`, `ingress/update_secrets`, `make/include`) | namespaces, releases, secrets, pods, the two ingresses' certificates; the step of the target and its variable | one per call of helm or kubectl, or per poll of a loop | a cluster that works on in its own time, failing calls that are taken for an answer, pods of a former revision that still answer |
| acceptance test utilities (`src/acceptance-tests-brain/test-scripts/testutils.rb`) | at_exit stack, `$opts`, the timeout's thread, what is left in the deployment | run, retry, set, wait, the timeout, clean-up | an exception in any place, in a clean-up too; a timeout that a retry rescues; commands that go on when nobody waits for them |
| brokers, registry and NFS tests (`cf_usb_helper.rb`, `minibroker_helper.rb`, `010_insecure_registry_test.rb`, `011_nfspersi_test.rb`) | a script, run by the utilities | creations, deletions, registrations in order | the order of clean-ups, failures inside them |

Not modelled, and why:

| Component | Reason |
|---|---|
| pid file helpers (`src/scf-release/src/pid_utils.sh`) | no job of this repository uses them any more, so who calls them, and when monit gives up on them, is nowhere in the source |
| startup patches (`container-host-files/etc/scf/config/scripts/patches`) | each returns if its sentinel is there, patches and touches it; a container that starts again in Kubernetes has a fresh file system, so the interrupted state they could meet does not occur there |
| HA host addresses (`configure-HA-hosts.sh`) | a list that is computed once as a container starts; nothing is kept |
| wait-for-uaa, wait-for-api | one loop each, which is `Retry` in two modules here; what comes after it is other releases' code |
| klog, liquibase lock recovery, pod-status (`container-host-files/opt/scf/bin`) | tools that a person runs and reads; the lock's other users are not in the source |
| suites parser, validator, release comparison, overrides | functions of their input, printed: a model would repeat the set operators they are made of |
| docker-uploader, sql-readiness (Go) | one request from beginning to end, without state of their own |
| the other acceptance tests | sequences of calls on the utilities that are modelled; the backup test deletes on purpose what it created, and the syslog test has a thread that writes its log file on while the clean-up removes it, which the machine does not have |

Scripts of a few straight commands (log levels, zones, kernel settings, CA
certificates, starting the tests), the charts and opinions (data), build,
packaging and CI are left out for good.  SCF's own code is bash, ERB templates
and Ruby, with a little Go; the JavaScript in the repository is third-party
libraries (jQuery, Bootstrap, mustache ...) that applications for the acceptance
tests carry along, and none of it is modelled.  `PROJECT.json` lists every part
with its reason.

How the modelled parts interact.  A pod of `post-deployment-setup` runs
uaa-create-user and then configure-scf (the order of the role manifest), and
configure-scf logs in with the client `scf_auto_config` that uaa-create-user
creates.  `ConfigureScf` alone takes the client's secret as given by an
environment (`ProvideClient`, the guard of `Start`, a fairness condition);
`PostDeployment` puts `UaaCreateUser` in the place of that environment and shows
that nothing else was assumed.  The make targets bring up the namespaces that
these jobs then run in.  forward_logfiles.sh runs in every BOSH role's container
beside monit.  The MySQL script is run by hand from outside before an upgrade
replaces all pods.  The acceptance tests work on the deployment as any user
does, and owe it to take down what they create.

## 2. Modules

| Module | What it is |
|---|---|
| `Provisioning` | abstract: a service with slots; wanted values are put in place, nothing else is replaced, success is announced only when all is there |
| `UaaCreateUser` | the job, call by call |
| `UaaCreateUserImpl` | the refinement mapping of `UaaCreateUser` to `Provisioning` |
| `ConfigureScf` | the job with its two Ruby helpers, and its mapping to `Provisioning` |
| `PostDeployment` | the composition of both, and the mapping of it to `ConfigureScf` |
| `PostDeploymentImpl` | the mapping of the composition to `Provisioning`, with the slots of both services |
| `LogForwarder` | the script with cron, monit and rsyslogd |
| `MysqlBootstrap` | the script with the Galera cluster it works on |
| `Deployment` | the make targets with the cluster they work on |
| `BrainTest` | the machinery of the acceptance tests, for any scripts |
| `BrainScripts` | the scripts of four tests, as data for `BrainTest` |
| `...Proofs` | the theorems of the module before the suffix |
| `MC*` | instances for TLC (`Deployment` needs none: its constants are numbers) |

A definition whose comment begins with "Variant" is the code with one plausible
mistake in it.  Put in place of the definition that follows it, it makes TLC
find the property it is meant for violated; nothing else uses it.

### From code to model

*UaaCreateUser.*  `pc[r]` is where pod r is in `run.erb`, each value one call.
A command outside a condition that fails is `Abort` (errexit); one under
`if !` takes the other branch, whether it failed or answered "no".  The ERB
loops are unrolled when the script is rendered; `todo` is what the loop has
left, in an arbitrary fixed order.  `userId` is whether the shell variable is
non-empty.  `AuthorityName` may or may not find the administrator's name in the
group: whether the listing shows names is up to the UAA.  A kill sends a pod
back to "idle", an upgrade all pods at once.

*ConfigureScf.*  `Command` is a `cf` call that must succeed.  Each call made
with the client's token puts the client into the cloud controller's list of
users (the comment at `insert_cf_client_auth_token.rb:9` is about this), so
`Listed` is part of every call, those of remove_temporary_users.rb too.  `cf
api` is not only the wait for the cloud controller: it is what gives the CLI its
target (`targeted`), so when that loop gives up all `cf` calls of the run fail,
whether or not the cloud controller comes back (`Reached`).  The list is in
order of age and `/v2/users` answers its first page.  A name is the UAA's to
give: while it is away nobody has one.

*PostDeployment.*  One pod and one UAA: the steps are those of the two modules
above, instantiated on the same variables.  `secret` of `ConfigureScf` is the
secret that `UaaCreateUser` has for `AutoClient`; its faults are those of both
bounds.  A script that fails fails the pod, which then begins with
uaa-create-user; `Crash` kills it in the first script, `Kill` in the second.

*LogForwarder.*  A run is begin (cron), main configuration, the files `find`
reports one by one, the check of the pid file, the restart.  Whether a
configuration is there is one step and writing it the next (`TestMain`,
`MainConfig`; `Search`, `CreateTargetConf`, with the file in `target`), so runs
come between the two.  The shell creates the main configuration, or empties the
one of another run, before `sed` has its text (`MainConfig`, `MainText`): a test
or a starting rsyslogd can meet it empty.  `conf` maps a basename
to the log file its configuration names, as the code's file names do: of the
log files with one basename the first is forwarded and the others are not.
monit takes one action on a service at a time and refuses others until it has
seen the service run.  `missed` is history: log files whose configuration was
written when a restart could not be had, or read beside an empty main one.

*MysqlBootstrap.*  The lists `sequences` and `uuids` grow by what a call
answers, so a call that fails moves the rest up, and `nounset` ends the script
at a missing element.  `Test` is one round of the wait for the pid file.
`logged` is the last "Recovered position" in a pod's log, whoever wrote it: a
start of mysqld writes one too.  `NewPods` is the upgrade: a bootstrap node's
data become everybody's.  Between two runs a stopped pod may be restarted
(`Restart`); if it is the marked one it makes the cluster anew from its data and
the mark goes (`Bootstrap`), otherwise it joins once there is a member.  No call
of the script clears a mark.  `misled` is history: since the last upgrade a run
has left the wait of a pod whose mysqld ran, or has gone on after a recovery
with a log that does not end with the pod's position.  `latest` starts at 0 as
in the code, so that the check for -1 after the loop never holds and a cluster
without transactions marks its first pod.

*Deployment.*  A target is a sequence of calls; `step` names the next one.
`Command` is a call under errexit, which may fail before or after it had its
effect.  `Answer` is a call under `if` or `while`: a failure is a "no".  The
wait of `make/wait` is a pipe that ends in awk, so that no list is as good as a
list without unready pods.  `get_secret` asks whichever pod is listed first for
the name of the secret; its three calls are one step.  A *generation* of secrets
is named for the target that made it, so a certificate, its key and the CA can
be told apart by where they are from.  `helm delete` and deletions of namespaces
return at once (kubectl 1.9) and the cluster does the rest: `JobDone`,
`PodStart`, `PodReady`, `PodCollected`, `PodGone`, `NamespaceGone`.  The scripts
for the uaa namespace are a git submodule; they are external, one or two steps.

*BrainTest.*  A test is data: a sequence of steps, each an operation of
testutils.rb (`arm`, `atExit`, `quiet` and `loud` for `set errexit: false do ...
end`, `run`, `wait`, `delete`, `deprovision`).  `code` is what the present block
has left; an exception ends it, and Ruby goes on with the at_exit blocks, last
one first.  `TimeoutRaised` interrupts whatever step the main thread is in; the
command it was waiting for goes on by itself (`adrift`, `Lands`).  A timeout by
`use_global_timeout` is a `Timeout::Error`, which is a `RuntimeError`: the
rescue of run_with_retry takes it (`TimeoutSwallowed`).  The minibroker tests
use `Timeout::timeout`, which throws past a rescue (`Thrown`).

*BrainScripts.*  Commands that look or print are left out, and several that set
up one thing are one step.  `UploadHandler` has no `quiet`: its
`set errxit: false` (`010_insecure_registry_test.rb:62`) is misspelt, and the
first failing deletion ends the block.  The registry test's last loop (lines 91
to 110) is one check.  In the NFS test the application's route and its binding
to the volume go with the application; `nfsServer` is all that
`nfs_server_kube.yaml` makes but the claim, which is deleted by itself.

## 3. Runs

| Run | Shows | Instance |
|---|---|---|
| `uaa_create_user` | types; the script ends well only in a provisioned UAA; without an outage the administrator has every authority, and a pod, its own kills notwithstanding, fails only where another one has run or was killed; the job implements `Provisioning`; some pod ends well in the end | 2 pods, 2 groups, 2 clients, an upgrade, an outage, a kill, 2 tries; 695,022 states |
| `uaa_authorities` (violation) | with one failing call the script ends well though the administrator lacks an authority | the same |
| `configure_scf` | types; what is configured is in effect at the end; the client's user is gone then; no other user ever goes; the job implements `Provisioning`; all pods end well in the end | 2 pods, 1 other user, pages of 2, 3 configurations, an upgrade, 2 faults, 2 tries; 412,258 states |
| `user_pages` (violation) | a temporary user beyond the first page stays | 2 other users |
| `post_deployment` | types; the composition implements `ConfigureScf`, and `Provisioning` with the slots of both services; a pod that ended well leaves both services as configured; it does end well in the end | 1 pod (the role's `max`), an outage of the UAA, a kill in each script or another fault, an upgrade that rotates the secret; 178,090 states |
| `log_forwarder` | types; an unread configuration is always on its way, the gaps aside in which rsyslogd starts or the main configuration is being written; no input without the main configuration, the second of these aside; a basename that has a configuration keeps it, once no run is about to write another; each basename is forwarded in the end | 2 runs, 3 log files of which 2 share a basename, 1 death of rsyslogd; 813,634 states |
| `log_lost` (violation) | in the first gap a configuration is lost for good, without a second run in its way | 1 run, 2 log files |
| `mysql_bootstrap` | types; and, unless a run was misled: no mysqld runs while the choice is made; one pod is marked at most; no transaction is lost | 3 pods, one of them slow to stop, 2 transactions, every call may fail, repeated runs, restarts and upgrades; 10,866,412 states |
| `mysql_slow` (violation) | a mysqld that outlasts the wait makes transactions get lost | 2 pods |
| `deployment` | types; after `make run` CF trusts the CA of the UAA beside it, and after an upgrade never a former one; the UAA's ingress has a certificate and key that belong together and to this UAA; CF is only installed where nothing of a former one is left; every target ends; what is stopped goes | any 2 targets in a row, 2 failing calls, 1 pod per namespace; 65,620 states |
| `brain_test` | types; what is left after a test is what a clean-up failed to remove; nothing outlives what it needs; a timed test is not killed before its clean-up, unless a retry took the timeout; a test that passes created all; the clean-up begins in the end | 4 scripts, 2 failing commands, 2 tries, the timeout and the kill at any point; 191,374 states |
| `brain_timeout` (violation) | the timeout is swallowed by run_with_retry and the test is killed in its body | the same |

The five violations are disagreements between the code and what it says of
itself:

1. `run.erb:167` of uaa-create-user: a failed `uaac user get` inside `$(... |
   awk ...)` leaves `user_id` empty, line 175 finds `value: ` in any group that
   has a member, and the script reports success.
2. `remove_temporary_users.rb:35` reads one page of users.
3. `forward_logfiles.sh:166` looks for rsyslogd's pid file, which rsyslogd has
   not written while it starts, though it has read its configuration by then;
   the run ends without a restart and later ones find nothing to add.  A restart
   that monit refuses (line 168) has the same effect.
4. `set_mysql_bootstrap_node.sh:20` stops waiting after 60 checks and goes on as
   if mysqld had stopped.  A second sentence of that script fails for the same
   reason: "only that one will have the bootstrap setting in its volume" (lines
   6 to 8).  A run that was misled, here or by a recovery that failed, may
   choose another pod than the next run does, and as line 59 writes one pod's
   state.txt and nothing clears the others', both are marked.  `OneBootstrap`
   states the promise with the condition under which it holds; with
   `Cardinality(boot) <= 1` in its place TLC finds the two runs in the instance
   of `mysql_bootstrap`: mysqld still runs on the first pod when its list is
   read, the second pod is marked, and the next run, with all stopped, marks the
   first one too.
5. `testutils.rb:187` rescues `RuntimeError`, which the timeout of line 46 is:
   while a test is in `wait_on_database`, the one timeout it gets counts as a
   failed try, and the runner kills it before anything is taken down, against
   the comment at line 31.

Other behaviour that reading the code for the models brought up, with no
sentence of the repository against it: an upgrade leaves the administrator's
password, and the scope, authorities and redirect URI of clients that exist, as
they were; a variable group that is no longer configured keeps its value; a
second run of forward_logfiles.sh that overlaps the first one's writing of the
main configuration can have rsyslogd restarted with an empty one; `make upgrade`
reads the CA without the loop of `make run` and can install an empty one, if the
UAA's new pods are listed before their secret exists (never a former one:
`NoFormerCa`); after an upgrade that rotates secrets, CF's ingress can have the
certificate of the former revision and the key of the present one, as nothing
waits for CF's former pods; `make stop` returns before what it stops is gone.

### Bounds, and why they are enough

Two pods are the fewest that race, and the scripts do not count pods.  Two tries
take a retry loop through all it does: an answer at once, an answer late, none.
The UAA instance has a group that a zone is born with and one that is not, a
client with a secret and one that only gets one by the upgrade.  An outage may
begin and end between any two steps, so one outage lets any one call, or any
contiguous stretch of calls, fail; several separate outages are the proofs'
business.  Two faults in `configure_scf` let a token expire and a broker call
fail, or a kill follow an outage.  A page of two with one other user always
holds the client, so the pass run is about interleavings and the violation about
the page.  Three log files are two of one basename and one of another. Three
mysql pods let a list be shifted by one and still have an element after the gap;
with two transactions one of them is ahead of another, and a pod without data is
behind both.  One wait is one check of the pid file and the end of the checks.
Every call of the passing run may fail and one pod is slow to stop, so that
runs are misled, choose differently and mark two pods in it; what its properties
say then is that nothing else does this.  A restart during a run is left out: it
would be one more mysqld that runs while the lists are read.

Two targets in a row are all pairs of what was there and what is done to it, and
two failing calls let a first target leave a half-made deployment and a second
one misjudge it.  One pod per namespace is enough for a pod to be absent, of the
former or of the present generation when it is asked for its secret; the proofs
cover any number.  The scripts of the acceptance tests are the ones in the
repository; what a former test may have left behind is `Leftovers`.  With two
failing commands a clean-up can fail after its body failed.  The post-deployment
instance has one pod since the role manifest allows no second; two pods of each
job are the two runs before it.

`CHECK_DEADLOCK FALSE` everywhere: all pods done, all targets made, a test that
is over, or no log files left to appear, is a legitimate end.

### Fairness, and why the code justifies it

*UaaCreateUser, ConfigureScf, PostDeployment*: each pod's script goes on and is
restarted after a failure (the job's restart policy), and the services come back
(Kubernetes keeps their pods running).  Nothing is assumed of outages, kills,
upgrades and expiring tokens but that there are finitely many (the bounds): the
liveness properties say what holds once they stop.  `ConfigureScf` also assumes
that its client is provided in the end; `PostDeployment` does not, it shows it.
*LogForwarder*: cron runs the script every minute and a run ends (one condition
per run); monit starts rsyslogd, makes the restart it accepted and notices that
a process runs (one condition for these together).  Jobs
need not create log files and rsyslogd need not die.  *Deployment*: a script
takes a step that succeeds if one is possible forever, and in each namespace the
cluster does what there is to do.  Nobody has to begin a target.  *BrainTest*:
commands come back, except the loops that wait for something that may never
happen, and time passes.  *MysqlBootstrap* has no liveness property: an operator
runs the script.

## 4. Proofs

Each holds for every value of the constants that satisfies the assumptions of
its module, and no fairness is used: any number of pods, groups, users, log
files, faults and tries.  Where a theorem has a condition of its own it is named
here and in the theorem.  In `PROJECT.json` each stands beside the property it
proves, where a passing run has that property.

*UaaCreateUserProofs.*  `TypeCorrect`, `DoneProvisionedAlways` and
`AuthoritiesUnlessOutageAlways`.  `DoneProvisioned` is not inductive: it says
nothing of scripts that are under way.  The strengthening, `IInv`, says of each
pod, by its label and the items its loop has left, what the UAA must have by now
(`ProgressAt`): in the groups' loop, all wanted groups but those left; from
`waitZone` on, all groups and clients with their present secrets; after `login`,
the zone; and so on.  `Kept` says that a step takes away no group, client, user
or zone and changes a secret only to the wanted one, so the progress of the
other pods is not lost (`KeptByScript`, `ProgressKept`); `ProgressByScript`
follows the moving pod through each action; kills and upgrades send pods to
"idle", which claims nothing.  In the model as in the code the checks may lie
when the UAA is away; the proof shows where errexit makes up for that.  It
cannot make up for the empty `user_id`, so the authorities have an invariant of
their own, `AuthorityInv`, which holds until the first outage.
`FailsByRaceAlways`, an action property: as long as the UAA was never away, a
pod fails only if another one has run or was killed; its own kills excuse
nothing.  For a pod that is alone,
what it saw at its last look is still so when it acts on it (`LookedInv`), and
each call that must succeed then does: no group, client or member is added that
is there, none is updated or read that is not.  The theorem is the safety half
of the liveness property, that a restarted script gets through.

*UaaCreateUserImplProofs.*  `ImplementsProvisioningAlways`.  The slots of
`Provisioning` hold what the zone, the groups, the clients, their secrets and
the administrator are (`Have`); each action of the job changes one slot to what
is wanted there, or none.  The step that announces success is the one that needs
`ProgressAt`, through `IInv`.  `ScriptForward` and `ScriptProvides`, what one
step of a script does to the slots, are lemmas of their own, since the
composition needs them again.

*ConfigureScfProofs.*  `TypeCorrect`; `DoneConfiguredAlways` by the same plan on
a smaller scale (`ConfiguredAt` and its `Kept`); `OnlyClientRemovedAlways`, an
action property: all that a script is about to remove is the client
(`OnlyBogus`), and removing one element of a sequence keeps the others, for any
page size and whether or not the UAA gives names; and
`ClientNotListedOnOnePage`, under `PageHoldsAll`: there are fewer people than a
page has room for.  Its invariant, `ClientInv`, says that as long as the client
is listed some script is still to remove it (`Pending`) and that nobody is
listed twice, so that the page holds the whole list (a counting argument with
the library's theorems on cardinalities).  `ImplementsProvisioningAlways`: the
slots are the three variable groups' and the broker's.  The invariant it needs
beside `IInv` is `BrokerWanted` (a pod is at the broker's steps only if a broker
is configured, so what it writes is what is wanted), and the step that
announces success needs `DoneConfigured` in its next state.

*PostDeploymentProofs.*  `TypeCorrect`, `ImplementsConfigureScfAlways` and
`DoneDeployedAlways`.  The invariant is the conjunction of those of the two jobs
with `Coupled`: configure-scf runs, or has ended well, only in a pod in which
uaa-create-user has.  From the first job's invariant the client then has the
secret that the second one asks for, and a step of the first changes nothing
that the second sees but this secret, to the wanted value (`SecretOnly`): that
is `ProvideClient`.  The lemmas on the jobs are those of their own proof
modules, taken over by `INSTANCE`; `SameUaa` and `SameScf` say that both
instances of a module are about the same steps.  At most one upgrade is assumed,
as in `ConfigureScf`.  `ImplementsProvisioningAlways` puts the two refinements
together: the slots are those of both services, a step of one job leaves the
slots of the other alone (`CreateUserProvides`, `ConfigureProvides`), an upgrade
changes what is wanted in both at once, and success is announced at the end of
configure-scf for what uaa-create-user did too, by `DoneDeployed` in the next
state.

*LogForwarderProofs.*  `TypeCorrect`; `ReloadAlwaysPending`;
`InputsAlwaysHaveTarget`; and `SettledStaysAlways`, an action property: two runs
that overlap can write one configuration twice, with different files, but only
while the later one has passed its test before the former one's write.  The
invariant adds that a run that has written a configuration has not ended
(`WriterGoesOn`) and that the file of the main configuration precedes all others
(`MainFirst`): a log file's configuration is read without it only where the file
was there and empty.

*MysqlBootstrapProofs.*  `TypeCorrect`, `DoneMeansStoppedAlways`,
`OneBootstrapAlways` and `NothingLostAlways`, without a condition on the
constants: whichever pods are slow and whichever calls fail, a run is misled or
the invariant holds, and an upgrade from a single mark begins anew.  The
invariant has four parts: the pods that the loop has passed are stopped
(`StoppedSoFar`), which freezes the data; a member of the cluster has what any
pod has, and grastate.dat has a pod's position or -1 (`DataInv`); the lists, as
far as they are aligned, are those positions, and `best` is the first pod with
most among those compared (`SequencesInv`, `Furthest`); every mark is on that
pod (`BootInv`), and while there is one no mysqld runs, so that the choice of
another run is the same (`OneFurthest`).  The data change again when the marked
pod is restarted: it has most, and its mark goes (`BootstrapKeeps`).  That a
shifted list never gets as far as the comparison is part of it.

*DeploymentProofs.*  `TypeCorrect`; `FreshInstallAlways`, an action property
that holds whichever calls fail; and, for targets of which no call fails,
`TrustsUaaAlways`, `NoFormerCaAlways` and `IngressOfUaaAlways`.  `FreshInv`
relates the namespace, the name that tiller keeps and the release's objects: a
namespace that is gone is empty; one in which `make run` is about to install has
been empty since (`Prepared`); and where a release lost its objects without
losing its name nothing is left either.  `TrustInv` follows the steps of a
target (`StepOfTarget`): from its installation or upgrade on, the UAA's pods are
of the present generation or on their way out (`UaaInv`); once make/wait has
passed none of the latter is left; and what has been read since is of the
present generation, or nothing if it was read for an upgrade (`TakenInv`).  The
pod that kubectl lists first is the least of those there, which exists for any
number of pods because `<` is well-founded (`MinOfNat`).

*BrainTestProofs.*  For all scripts that meet the three assumptions of
`BrainTest`, which TLC checks of the scripts in `BrainScripts`.
`ScriptsAssumption`: what is created comes after the at_exit that removes it,
the timeout is armed first, clean-ups only delete.  `BodiesAssumption`: a body
creates with errexit set and after what the new thing needs, and deletes nothing
that it has created or that anything needs.  `OrderAssumption`: a clean-up
deletes a thing before what it needs, and one that is registered later, so runs
earlier, deletes nothing that an earlier registered one's things need.  Proved
are `TypeCorrect`; `NothingLeftAlways`, since what is there was missed, or some
registered block or the present one still deletes it (`Covered` in `LeftInv`);
`KilledInCleanUpOnlyAlways` (`TimelyInv`); `PassedIsCompleteAlways`, from where
the body is in its script, what the steps before have created, and that errexit
is off in the midst of `set` only (`InPlace`); and `DependentsFirstAlways`.
`DependentsFirst` needs all of these: the blocks still to be run are in an order
in which nothing is deleted that a later one's things need (`InOrder`, for whose
step `InPlace` says which blocks can be registered); what is there and not
missed is still to be deleted (`LeftInv`), so it cannot need what is deleted
now; and what interrupted commands will create has, or gets with it, what it
needs (`Supported`).  `CleanUpBeforeKillUnlessRetrying` draws the line around
violation 5: a timed test is killed before its clean-up only if its script has a
`run` with several tries and its timeout is one that a rescue takes; every other
test is as the comment in testutils.rb says.

Model-checked only: all liveness properties, which are out of the prover's
reach, and the violations.

## 5. What the models leave out

Upgrades replace all pods at once (`helm upgrade --recreate-pods`); two
revisions of a job at a time are not modelled.  Nobody deletes groups, clients
or users behind the jobs' back, an operator only adds.  configure-eirini-scf is
another release's job.  A log file's configuration is written in one step, since
the run that writes it asks for the restart only when all of its text is there;
a full disk is not modelled.  Galera is as much of a replicated log as the
script depends on: a transaction is on all members or none, there is one primary
component, and joining takes one step; two marked pods would make two clusters,
of which the model goes on with one.  The ingress controller's own release,
storage classes and `EMBEDDED_UAA` are not in `Deployment`, and
`INGRESS_CONTROLLER` is set. Temporary directories of the acceptance tests are
not in `BrainTest`, and `cf delete-org` removes the organisation alone there,
without the cascade of the cloud controller: a deletion that would have been
made good by it counts as missed.

## 6. What remains

The scripts of the other acceptance tests could be added to `BrainScripts` as
data, without a change to the machinery or its proofs, as long as TLC finds that
they meet the assumptions.  Of the liveness of the two jobs, the proofs cover
that a step is not undone (`Kept`) and that a lone script does not fail
(`FailsByRaceAlways`); that each step of a script goes forward in a well-founded
order would be the next part of it that can be stated as an action property.
The hazards in `PROJECT.json` without a property say why.
