------------------------- MODULE MCSchemaBootstrap -------------------------
\* Small instances of SchemaBootstrap.
EXTENDS SchemaBootstrap
=============================================================================
