-------------------------- MODULE DashboardFilesMC --------------------------
EXTENDS DashboardFiles

TwoSections == <<"files", "published">>
CONSTANT p1
PlacesOfOne == {<<p1, "files">>, <<p1, "published">>}

\* One query finds every file, the other none.
AllOrNothing(q) == IF q = "any" THEN Docs ELSE {}
=============================================================================
