---------------------------- MODULE MCHttpServer ----------------------------
EXTENDS HttpServer
=============================================================================
