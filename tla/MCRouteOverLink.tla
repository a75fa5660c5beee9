--------------------------- MODULE MCRouteOverLink ---------------------------
EXTENDS RouteOverLink, TLC
===============================================================================
