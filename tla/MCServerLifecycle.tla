-------------------------- MODULE MCServerLifecycle --------------------------
EXTENDS ServerLifecycle

MCConfigs == {[mirroring |-> TRUE, xmpp |-> TRUE], [mirroring |-> FALSE, xmpp |-> FALSE]}

=============================================================================
