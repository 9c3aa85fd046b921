---------------------------- MODULE AwsCollector ----------------------------
(***************************************************************************)
(* What a posture scan collects from an AWS account, and what it reports.  *)
(* The account is a record of sets of resources; F says which calls fail:  *)
(* F.denied with an answer from AWS, F.broken without one.  A call names   *)
(* the resource it is about; a listing call names the resource that is on  *)
(* the page that fails, so that any part of a listing may be missing.      *)
(***************************************************************************)
EXTENDS Sequences, FiniteSets

Failed(F, call, id) == <<call, id>> \in F.denied \cup F.broken

Broken(F, call, id) == <<call, id>> \in F.broken

NoFailure == [denied |-> {}, broken |-> {}]

\* The answer to a call about one resource, with the default kept if it fails.
Ask(F, call, r, value, default) == IF Failed(F, call, r.id) THEN default ELSE value

\* Every region is listed on its own; what is on a page that fails is skipped.
Listed(F, call, resources, regions) ==
    {r \in resources : r.region \in regions /\ ~Failed(F, call, r.id)}

-----------------------------------------------------------------------------
(* Policy documents *)

\* A document is <<>> if it cannot be read, and else holds its statements.
Unreadable == <<>>

\* A principal is a scalar, a list or a map of those: here always a set of sets.
NormalizeStatements(document) ==
    IF document = Unreadable THEN {}
    ELSE {[effect |-> s.effect, actions |-> s.actions, principals |-> UNION s.principal,
           has_condition |-> s.condition] : s \in document[1]}

BucketPolicyStatements(F, b) ==
    NormalizeStatements(Ask(F, "get_bucket_policy", b, b.policy, Unreadable))

-----------------------------------------------------------------------------
(* One operator per resource type *)

\* Two calls are guarded against the errors AWS answers with, not against a
\* connection that breaks: that ends the collector, which then has nothing.
CollectS3Buckets(A, F) ==
    IF \/ Failed(F, "list_buckets", "s3")
       \/ \E b \in A.buckets : \/ Broken(F, "get_public_access_block", b.id)
                               \/ Broken(F, "get_bucket_encryption", b.id)
      THEN {}
      ELSE {[id |-> b.id,
             blocked |-> Ask(F, "get_public_access_block", b, b.blocked, FALSE),
             encrypted |-> Ask(F, "get_bucket_encryption", b, b.encrypted, FALSE),
             versioned |-> Ask(F, "get_bucket_versioning", b, b.versioned, FALSE),
             logged |-> Ask(F, "get_bucket_logging", b, b.logged, FALSE),
             statements |-> BucketPolicyStatements(F, b)] : b \in A.buckets}

\* IPv4 and IPv6 ranges are one list.
PermissionRules(permissions) ==
    {[port |-> p.port, cidrs |-> p.v4 \cup p.v6] : p \in permissions}

CollectSecurityGroups(A, F, regions) ==
    {[id |-> g.id, ingress |-> PermissionRules(g.ingress), egress |-> PermissionRules(g.egress)] :
        g \in Listed(F, "describe_security_groups", A.groups, regions)}

\* "unknown" is None: not measured, which is not the same as fine.
ReportAgeDays(stamp) == IF stamp = "none" THEN "unknown" ELSE stamp

NoCredentialReport == [console |-> "unknown", key |-> "unknown"]

\* One report for all users; root is not among them.
CredentialReport(A, F) ==
    IF Failed(F, "get_credential_report", "iam") THEN {}
    ELSE {[id |-> u.id, console |-> u.console, key |-> ReportAgeDays(u.key)] : u \in A.users}

CredentialsOf(report, u) ==
    IF \E row \in report : row.id = u.id
      THEN LET row == CHOOSE row \in report : row.id = u.id
           IN [console |-> row.console, key |-> row.key]
      ELSE NoCredentialReport

CollectUsers(A, F) ==
    LET report == CredentialReport(A, F)
    IN {[id |-> u.id, mfa |-> Ask(F, "list_mfa_devices", u, u.mfa, FALSE),
         credentials |-> CredentialsOf(report, u)] :
           u \in {v \in A.users : ~Failed(F, "list_users", v.id)}}

CollectPolicies(A, F) ==
    {[id |-> p.id,
      statements |-> NormalizeStatements(Ask(F, "get_policy_version", p, p.document, Unreadable))] :
        p \in {q \in A.policies : ~Failed(F, "list_policies", q.id)}}

CollectRdsInstances(A, F, regions) == Listed(F, "describe_db_instances", A.databases, regions)

CollectEbsVolumes(A, F, regions) == Listed(F, "describe_volumes", A.volumes, regions)

\* A connection that breaks on a function's URL ends the listing of its region.
CollectLambdaFunctions(A, F, regions) ==
    {[fn EXCEPT !.public = Ask(F, "get_function_url_config", fn, fn.public, FALSE)] :
        fn \in {g \in Listed(F, "list_functions", A.functions, regions) :
                    ~Broken(F, "get_function_url_config", g.id)}}

\* Only the first region is asked: it answers for all of them.
CollectCloudtrailTrails(A, F, regions) ==
    IF regions = <<>> \/ Failed(F, "describe_trails", "cloudtrail") THEN {}
    ELSE {[t EXCEPT !.logging = Ask(F, "get_trail_status", t, t.logging, FALSE)] : t \in A.trails}

CollectCloudwatchLogGroups(A, F, regions) == Listed(F, "describe_log_groups", A.logs, regions)

\* A cluster that cannot be described is left out.
CollectEksClusters(A, F, regions) ==
    {c \in Listed(F, "list_clusters", A.clusters, regions) : ~Failed(F, "describe_cluster", c.id)}

CollectEcrRepositories(A, F, regions) == Listed(F, "describe_repositories", A.registries, regions)

CollectLoadBalancers(A, F, regions) ==
    {[lb EXCEPT !.listeners = Ask(F, "describe_listeners", lb, lb.listeners, {}),
                !.logged = Ask(F, "describe_load_balancer_attributes", lb, lb.logged, FALSE)] :
        lb \in Listed(F, "describe_load_balancers", A.balancers, regions)}

CollectSecrets(A, F, regions) == Listed(F, "list_secrets", A.secrets, regions)

\* AWS's own keys and keys that are not enabled are not the account's concern.
CollectKmsKeys(A, F, regions) ==
    {[k EXCEPT !.rotates = Ask(F, "get_key_rotation_status", k, k.rotates, FALSE)] :
        k \in {j \in Listed(F, "list_keys", A.keys, regions) :
                  ~Failed(F, "describe_key", j.id) /\ j.customer /\ j.enabled}}

\* The types are collected on their own; none of them can fail the others.
CollectAccountResources(A, F, regions) ==
    LET here == {regions[i] : i \in DOMAIN regions}
    IN [buckets    |-> CollectS3Buckets(A, F),
        groups     |-> CollectSecurityGroups(A, F, here),
        users      |-> CollectUsers(A, F),
        policies   |-> CollectPolicies(A, F),
        databases  |-> CollectRdsInstances(A, F, here),
        volumes    |-> CollectEbsVolumes(A, F, here),
        functions  |-> CollectLambdaFunctions(A, F, here),
        trails     |-> CollectCloudtrailTrails(A, F, regions),
        logs       |-> CollectCloudwatchLogGroups(A, F, here),
        clusters   |-> CollectEksClusters(A, F, here),
        registries |-> CollectEcrRepositories(A, F, here),
        balancers  |-> CollectLoadBalancers(A, F, here),
        secrets    |-> CollectSecrets(A, F, here),
        keys       |-> CollectKmsKeys(A, F, here)]

-----------------------------------------------------------------------------
(* Some of the rules: the resources each of them reports *)

Everyone == {"0.0.0.0/0", "::/0"}

Ids(resources) == {r.id : r \in resources}

AccessBlockDisabled(C) == Ids({b \in C.buckets : ~b.blocked})

BucketUnencrypted(C) == Ids({b \in C.buckets : ~b.encrypted})

MissingVersioning(C) == Ids({b \in C.buckets : ~b.versioned})

PublicPolicy(C) ==
    Ids({b \in C.buckets : \E s \in b.statements :
            s.effect = "Allow" /\ "*" \in s.principals /\ ~s.has_condition})

UnrestrictedEgress(C) ==
    Ids({g \in C.groups : \E e \in g.egress : e.port = "all" /\ e.cidrs \cap Everyone # {}})

UserNoMfa(C) == Ids({u \in C.users : u.credentials.console = "yes" /\ ~u.mfa})

AccessKeyTooOld(C) == Ids({u \in C.users : u.credentials.key = "old"})

WildcardAction(C) ==
    Ids({p \in C.policies : \E s \in p.statements : s.effect = "Allow" /\ "*" \in s.actions})

RdsNotEncrypted(C) == Ids({d \in C.databases : ~d.encrypted})

VolumeUnencrypted(C) == Ids({v \in C.volumes : ~v.encrypted})

\* Without a key in sight there may be none, or no permission to list them.
UsesAwsManagedKey(C) ==
    IF C.keys = {} THEN {} ELSE Ids({v \in C.volumes : v.encrypted /\ v.key \notin Ids(C.keys)})

PublicFunctionUrl(C) == Ids({fn \in C.functions : fn.public})

CloudtrailAbsent(C) == IF C.trails = {} THEN {"account"} ELSE {}

LoggingDisabled(C) == Ids({t \in C.trails : ~t.logging})

NoRetention(C) == IF \E g \in C.logs : ~g.retains THEN {"account"} ELSE {}

PublicEndpoint(C) == Ids({c \in C.clusters : c.public /\ c.cidrs \cap Everyone # {}})

MutableImageTags(C) == Ids({r \in C.registries : r.mutable})

PlaintextListener(C) ==
    Ids({lb \in C.balancers : lb.scheme = "internet-facing" /\ lb.listeners \cap {"HTTP", "TCP"} # {}})

SecretRotationDisabled(C) == Ids({x \in C.secrets : ~x.rotates})

KeyRotationDisabled(C) == Ids({k \in C.keys : ~k.rotates})

-----------------------------------------------------------------------------
(* The report *)

\* Rules that stay silent about what could not be measured.
QuietReport(C) ==
    [s3_bucket_public_policy |-> PublicPolicy(C),
     security_group_unrestricted_egress |-> UnrestrictedEgress(C),
     iam_access_key_too_old |-> AccessKeyTooOld(C),
     iam_policy_wildcard_action |-> WildcardAction(C),
     rds_not_encrypted |-> RdsNotEncrypted(C),
     ebs_volume_unencrypted |-> VolumeUnencrypted(C),
     lambda_public_function_url |-> PublicFunctionUrl(C),
     cloudwatch_log_group_no_retention |-> NoRetention(C),
     eks_public_endpoint |-> PublicEndpoint(C),
     ecr_mutable_image_tags |-> MutableImageTags(C),
     load_balancer_plaintext_listener |-> PlaintextListener(C),
     secret_rotation_disabled |-> SecretRotationDisabled(C)]

\* Rules for which a failed call can look like a violation.
LoudReport(C) ==
    [s3_public_access_block_disabled |-> AccessBlockDisabled(C),
     s3_bucket_unencrypted |-> BucketUnencrypted(C),
     s3_bucket_missing_versioning |-> MissingVersioning(C),
     iam_user_no_mfa |-> UserNoMfa(C),
     ebs_uses_aws_managed_key |-> UsesAwsManagedKey(C),
     cloudtrail_absent |-> CloudtrailAbsent(C),
     cloudtrail_logging_disabled |-> LoggingDisabled(C),
     kms_key_rotation_disabled |-> KeyRotationDisabled(C)]

-----------------------------------------------------------------------------
(* A small account, of which some rules are looked at *)

Observable == {"s3_bucket_missing_versioning", "s3_public_access_block_disabled",
               "cloudtrail_logging_disabled", "kms_key_rotation_disabled", "rds_not_encrypted"}

(* One resource of each kind, in a region that is scanned. *)
AccountAt(violated) ==
    LET is(rule) == rule \notin violated
    IN [buckets   |-> {[id |-> "b", blocked |-> is("s3_public_access_block_disabled"),
                        encrypted |-> TRUE, versioned |-> is("s3_bucket_missing_versioning"),
                        logged |-> TRUE, policy |-> <<{}>>]},
        trails    |-> {[id |-> "t", logging |-> is("cloudtrail_logging_disabled")]},
        keys      |-> {[id |-> "k", region |-> "home", customer |-> TRUE, enabled |-> TRUE,
                        rotates |-> is("kms_key_rotation_disabled")]},
        databases |-> {[id |-> "d", region |-> "home", encrypted |-> is("rds_not_encrypted")]},
        groups |-> {}, users |-> {}, policies |-> {}, volumes |-> {}, functions |-> {}, logs |-> {},
        clusters |-> {}, registries |-> {}, balancers |-> {}, secrets |-> {}]

Calls ==
    {<<"list_buckets", "s3">>, <<"get_public_access_block", "b">>, <<"get_bucket_versioning", "b">>,
     <<"get_trail_status", "t">>, <<"list_keys", "k">>, <<"describe_key", "k">>,
     <<"get_key_rotation_status", "k">>, <<"describe_db_instances", "d">>}

(* The violations reported if these calls fail. *)
Reported(rules, violated, F) ==
    LET report == LoudReport(CollectAccountResources(AccountAt(violated), F, <<"home">>))
        quiet == QuietReport(CollectAccountResources(AccountAt(violated), F, <<"home">>))
    IN {t \in rules : IF t \in DOMAIN report THEN report[t] # {} ELSE quiet[t] # {}}

(* What may be reported, of each state of the account, by some calls failing. *)
ReportsOf(rules) ==
    {<<violated, Reported(rules, violated, F)>> :
        violated \in SUBSET rules,
        F \in [denied : SUBSET Calls, broken : {{}} \cup {{c} : c \in Calls}]}

-----------------------------------------------------------------------------
(* Properties *)

(* Whatever calls fail, a quiet rule reports nothing it would not report of  *)
(* the whole account: a gap in the role's permissions makes no finding.      *)
NothingInvented(A, F, regions) ==
    LET whole == QuietReport(CollectAccountResources(A, NoFailure, regions))
        part == QuietReport(CollectAccountResources(A, F, regions))
    IN \A rule \in DOMAIN whole : part[rule] \subseteq whole[rule]
=============================================================================
