--------------------------- MODULE MCPipelineRun ---------------------------
(* Small instances of PipelineRun. *)
EXTENDS PipelineRun, Sequences

Template(kinds) == [i \in 0..(Len(kinds) - 1) |-> kinds[i + 1]]

\* Every kind of step once, in the order the preset editor and CreateRun put them.
FullTemplate ==
  Template(<<"script", "image", "audio", "music", "assemble", "caption", "upload">>)
PublishTemplate == Template(<<"script", "image", "assemble", "upload">>)

AllOptions == [auto : BOOLEAN, review : BOOLEAN, mode : RefMode, cap : {0, 3}]
RerunOptions ==
  {[auto |-> FALSE, review |-> TRUE,  mode |-> "none",   cap |-> 0],
   [auto |-> TRUE,  review |-> FALSE, mode |-> "anchor", cap |-> 3]}

PlainOverride == [panels : {{}}, mode : {"none"}]
ImageOverrides == {[panels |-> {}, mode |-> "none"], [panels |-> {1}, mode |-> "anchor"]}
=============================================================================
