---- MODULE MCUpdatePipeline ----
EXTENDS UpdatePipeline
====
