---------------------------- MODULE MCInventory ----------------------------
(* A small instance of Inventory: a component of Quantum's own with a        *)
(* marker, and one with a service glob, a version file and a version command.*)
EXTENDS Inventory

P(kind, place) == [kind |-> kind, at |-> place]

MCDefinitions ==
  << {P("path", "/etc/quantum-runtime"), P("marker", ".managed.json"),
      P("unit", "quantum-runtime.service")},
     {P("glob", "php.sock"), P("serviceGlob", "php-fpm"), P("unit", "php.service"),
      P("versionFile", "VERSION"), P("command", "php")} >>

(* One whose only trace may be what a version command or a glob finds.       *)
MCScantDefinitions ==
  << {P("path", "/etc/php"), P("unit", "php.service"), P("glob", "php.sock"),
      P("command", "php")} >>

=============================================================================
