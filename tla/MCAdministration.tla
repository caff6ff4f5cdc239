--------------------------- MODULE MCAdministration ----------------------------
(***************************************************************************)
(* Small instances of the components that administer applications, accounts    *)
(* and data, side by side: they share no state, and a behaviour is one of any   *)
(* of them.  The snapshots are composed with the gate.                         *)
(***************************************************************************)
EXTENDS SnapshotService, ApiKeyService, AuthSessions, OAuthLogin, PluginManager, AppManager,
  MCCollections, TLC

VARIABLE part        \* the component that moves

Symmetry == {f @@ g : f \in Permutations(Request), g \in Permutations(Operation)}

AdministrationInit ==
  /\ part \in {"snapshots", "keys", "sessions", "oauth", "plugins", "apps", "collections"}
  /\ SnapshotInit /\ ApiKeyInit /\ AuthInit /\ OAuthInit /\ PluginInit /\ AppInit
  /\ CollectionsInit

SnapshotPart ==
  /\ part = "snapshots" /\ SnapshotNext
  /\ UNCHANGED <<apiKeyVars, authVars, oauthVars, pluginVars, appVars, collectionsVars>>
ApiKeyPart ==
  /\ part = "keys" /\ ApiKeyNext
  /\ UNCHANGED <<snapshotVars, authVars, oauthVars, pluginVars, appVars, collectionsVars>>
AuthPart ==
  /\ part = "sessions" /\ AuthNext
  /\ UNCHANGED <<snapshotVars, apiKeyVars, oauthVars, pluginVars, appVars, collectionsVars>>
OAuthPart ==
  /\ part = "oauth" /\ OAuthNext
  /\ UNCHANGED <<snapshotVars, apiKeyVars, authVars, pluginVars, appVars, collectionsVars>>
PluginPart ==
  /\ part = "plugins" /\ PluginNext
  /\ UNCHANGED <<snapshotVars, apiKeyVars, authVars, oauthVars, appVars, collectionsVars>>
AppPart ==
  /\ part = "apps" /\ AppNext
  /\ UNCHANGED <<snapshotVars, apiKeyVars, authVars, oauthVars, pluginVars, collectionsVars>>

CollectionsPart ==
  /\ part = "collections" /\ CollectionsNext
  /\ UNCHANGED <<snapshotVars, apiKeyVars, authVars, oauthVars, pluginVars, appVars>>

AdministrationNext ==
  /\ SnapshotPart \/ ApiKeyPart \/ AuthPart \/ OAuthPart \/ PluginPart \/ AppPart \/ CollectionsPart
  /\ UNCHANGED part

AdministrationSpec ==
  AdministrationInit
  /\ [][AdministrationNext]_<<part, snapshotVars, apiKeyVars, authVars, oauthVars, pluginVars, appVars,
                              collectionsVars>>
=============================================================================
