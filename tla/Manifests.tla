------------------------------- MODULE Manifests -------------------------------
(***************************************************************************)
(* The manifests xtask generates for the admission webhook, and the        *)
(* constants the webhook binary goes by (webhook/src/config.rs).  Each     *)
(* side writes its names, ports and paths down for itself; the operators   *)
(* at the end say what has to fit.  The API server is external, and so is  *)
(* the Deployment, which puts the pods into NAMESPACE under the label the  *)
(* Service selects and may inject AUTHROUTE_NAMESPACE, where they run.     *)
(***************************************************************************)

(* xtask.                                                                  *)

NAMESPACE == "authroute-system"
WEBHOOK_NAME == "authroute-webhook"

\* A PolicyRule over one API group.
Rule(group, resource, verbs) == [on |-> <<group, resource>>, verbs |-> verbs]

ClusterRole ==
    [name |-> WEBHOOK_NAME,
     rules |-> {Rule("gateway.networking.k8s.io", "httproutes", {"get", "list", "watch"}),
                Rule("admissionregistration.k8s.io", "validatingwebhookconfigurations",
                     {"get", "list", "watch", "update", "patch"})}]

ServiceAccount == [name |-> WEBHOOK_NAME, namespace |-> NAMESPACE]

ClusterRoleBinding ==
    [roleRef |-> WEBHOOK_NAME,
     subjects |-> {[name |-> WEBHOOK_NAME, namespace |-> NAMESPACE]}]

\* Mutant: the Service forwards to its own port.
WebhookServiceSamePort ==
    [name |-> WEBHOOK_NAME, namespace |-> NAMESPACE, selector |-> WEBHOOK_NAME,
     port |-> 443, targetPort |-> 443]

WebhookService ==
    [name |-> WEBHOOK_NAME, namespace |-> NAMESPACE, selector |-> WEBHOOK_NAME,
     port |-> 443, targetPort |-> 8443]

\* Mutant: the rule is for cluster-scoped objects.
WebhookRuleClusterScoped ==
    [apiGroups |-> {"authroute.dev"}, apiVersions |-> {"v1alpha1"},
     operations |-> {"CREATE", "UPDATE"}, resources |-> {"authpolicies"}, scope |-> "Cluster"]

WebhookRule ==
    [apiGroups |-> {"authroute.dev"}, apiVersions |-> {"v1alpha1"},
     operations |-> {"CREATE", "UPDATE"}, resources |-> {"authpolicies"}, scope |-> "Namespaced"]

\* Mutant: fail open.
WebhookConfigurationIgnore ==
    [name |-> WEBHOOK_NAME, failurePolicy |-> "Ignore", rules |-> {WebhookRule},
     service |-> [name |-> WEBHOOK_NAME, namespace |-> NAMESPACE,
                  path |-> "/validate", port |-> 443]]

WebhookConfiguration ==
    [name |-> WEBHOOK_NAME, failurePolicy |-> "Fail", rules |-> {WebhookRule},
     service |-> [name |-> WEBHOOK_NAME, namespace |-> NAMESPACE,
                  path |-> "/validate", port |-> 443]]

(* The webhook.                                                            *)

NAME == "authroute-webhook"
DEFAULT_NAMESPACE == "authroute-system"
DEFAULT_LISTEN_PORT == 8443
VALIDATE_PATH == "/validate"

\* The types it reads and replaces, and the one it reviews.
HttpRoutes == <<"gateway.networking.k8s.io", "httproutes">>
Configurations == <<"admissionregistration.k8s.io", "validatingwebhookconfigurations">>
AuthPolicies == [group |-> "authroute.dev", version |-> "v1alpha1",
                 plural |-> "authpolicies", scope |-> "Namespaced"]

OwnNamespace(injected) == IF injected THEN NAMESPACE ELSE DEFAULT_NAMESPACE

\* The names the serving certificate is minted for.
ServingDnsNames(namespace) ==
    {<<NAME, namespace, "svc">>, <<NAME, namespace, "svc", "cluster", "local">>}

(* What the API server makes of the two.                                   *)

\* RBAC: the webhook's service account may do this to that type.
May(verb, type) ==
    /\ ClusterRoleBinding.roleRef = ClusterRole.name
    /\ ServiceAccount \in ClusterRoleBinding.subjects
    /\ \E r \in ClusterRole.rules : r.on = type /\ verb \in r.verbs

\* The webhook finds its configuration, and may replace it.
MayRead == WebhookConfiguration.name = NAME /\ May("get", Configurations)
MayReplace == May("update", Configurations)

\* The rules of the configuration ask for a review of this operation on an
\* AuthPolicy.
Reviewed(operation) ==
    \E rule \in WebhookConfiguration.rules :
        /\ AuthPolicies.group \in rule.apiGroups /\ AuthPolicies.version \in rule.apiVersions
        /\ AuthPolicies.plural \in rule.resources /\ AuthPolicies.scope = rule.scope
        /\ operation \in rule.operations

\* A call arrives at a pod's handler, under a name its certificate carries.
Reaches(injected) ==
    LET service == WebhookService
        client == WebhookConfiguration.service
    IN  /\ client.name = service.name /\ client.namespace = service.namespace
        /\ client.port = service.port /\ service.targetPort = DEFAULT_LISTEN_PORT
        /\ client.path = VALIDATE_PATH
        /\ <<client.name, client.namespace, "svc">> \in ServingDnsNames(OwnNamespace(injected))
=============================================================================
