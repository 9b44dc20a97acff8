--------------------------- MODULE MCContractStore ---------------------------
(* ContractStore on small sets: partials a scan, a quality run and an import
   really produce, the payloads of the add-PII and patch-privacy calls. *)
EXTENDS ContractStore

Frag(privacy, tags, type, rules) ==
    [privacy |-> privacy, tags |-> tags, type |-> type, quality |-> rules]

\* Schema base, PII scan, PII scan that finds an organisation or an API key,
\* import of a definition, quality run that finds no rule.
MCFragments == {
    Frag("none", {}, "integer", Omitted),
    Frag("pii", {"pii"}, Omitted, Omitted),
    Frag("exempt", {}, Omitted, Omitted),
    Frag("none", {"billing"}, "string", Rules),
    Frag("none", {}, Omitted, {}) }

\* A scan that finds a session id or an IP address.
IndirectFragments == {
    Frag("none", {}, "string", Omitted),
    Frag("pii", {"pii_indirect", "gdpr_personal_data"}, Omitted, Omitted) }

MCPayloads == {
    [privacy |-> "pii", tags |-> {"pii"}, replace |-> FALSE],
    [privacy |-> "pii", tags |-> {"billing"}, replace |-> TRUE],
    [privacy |-> "none", tags |-> Omitted, replace |-> FALSE] }

MCTagPatches == { {"pii"}, Omitted }
=============================================================================
