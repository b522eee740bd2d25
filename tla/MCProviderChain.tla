--------------------------- MODULE MCProviderChain ---------------------------
(* Small instances of ProviderChain: a cloud provider, a local one, and    *)
(* perhaps a second cloud provider.                                        *)
EXTENDS ProviderChain

CONSTANTS cloud, ollama, backup, none, legacy

MCTwo == <<cloud, ollama>>
MCThree == <<cloud, ollama, backup>>

(* Whatever the row is, while it is enabled. *)
EnabledRows == {r \in RowSet : \A p \in Providers : r[p].enabled}

LocalInClear == {s \in SettingSet : ~s.redactLocal}
NeverRedacted == {s \in LocalInClear : ~s.redact}
=============================================================================
