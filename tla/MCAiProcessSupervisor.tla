----------------------- MODULE MCAiProcessSupervisor -----------------------
\* AiProcessSupervisor with two restarts and up to two reports under way.
EXTENDS AiProcessSupervisor
=============================================================================
