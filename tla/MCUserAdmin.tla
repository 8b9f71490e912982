---------------------------- MODULE MCUserAdmin ----------------------------
EXTENDS UserAdmin

MCOne == {1}

=============================================================================
