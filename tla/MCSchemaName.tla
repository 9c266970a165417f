---------------------------- MODULE MCSchemaName ----------------------------
(* A small alphabet of lengths for SchemaName: each limit can be reached. *)
EXTENDS SchemaName

ShortPrefix == <<"letter", "underscore">>
ShortDefault == <<"letter", "letter">>
ShortSuffix == <<"underscore", "digit">>
=============================================================================
