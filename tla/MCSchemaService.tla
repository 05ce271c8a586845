---------------------------- MODULE MCSchemaService ----------------------------
(* Startup's own call and two others, with connections to spare. *)
EXTENDS SchemaService

CONSTANTS start, c1, c2, d1, d2, d3

MCConn == {d1, d2, d3}
=============================================================================
