------------------------------ MODULE MCReaders -------------------------------
\* Readers on small tables: more events than a page of the job stream or of the
\* event poll holds, and one frame of socket buffer.
EXTENDS Readers

==============================================================================
