----------------------- MODULE MCApplicationController -----------------------
\* ApplicationController has no parameters.
EXTENDS ApplicationController
=============================================================================
