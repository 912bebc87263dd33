------------------------------ MODULE MCSeeding ------------------------------
EXTENDS Seeding

\* Every Machine of the instance is at one Site.
MCSiteOf == [m \in Machines |-> CHOOSE s \in Sites : TRUE]
==============================================================================
