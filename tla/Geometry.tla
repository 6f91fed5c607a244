------------------------------ MODULE Geometry ------------------------------
(***************************************************************************)
(* The obstacle and its preflight (geometry.py), and the surface that the  *)
(* drag of a field is integrated on (solver/diagnostics.py).               *)
(*                                                                         *)
(* Lengths of the analytic ellipse are in half cells, so that the centre   *)
(* of the obstacle is whole on the grids of interest; the cosine and sine  *)
(* of its rotation are c / q and s / q for whole numbers with              *)
(* c^2 + s^2 = q^2.  A signed distance field gives each cell an integer.   *)
(***************************************************************************)
EXTENDS Integers, FiniteSets, FiniteSetsExt, Functions

CONSTANTS
    FieldRows, FieldColumns,    \* the small grid of the fields
    SpongeStart,                \* the first column of its sponge
    Clearance                   \* CONTROL_SURFACE_CLEARANCE_CELLS

ASSUME GeometryAssumption ==
    /\ FieldRows \in Nat /\ FieldRows >= 3 /\ FieldColumns \in Nat /\ FieldColumns >= 3
    /\ SpongeStart \in 2 .. FieldColumns /\ Clearance \in Nat \ {0}

-----------------------------------------------------------------------------
(* Preflight.  A shape is a grid nx, ny, the two half axes of the ellipse  *)
(* and a rotation <<c, s, q>>.                                             *)

ReferenceDiameter(shape) == shape.ny \div 10
CenterX(shape) == (6 * (shape.nx - 1)) \div 10
CenterY(shape) == shape.ny - 1

\* The squares of q times the extents of the rotated ellipse.
ExtentX2(shape) ==
    LET r == shape.rotation
    IN  (shape.major * r[1]) * (shape.major * r[1]) + (shape.minor * r[2]) * (shape.minor * r[2])
ExtentY2(shape) ==
    LET r == shape.rotation
    IN  (shape.major * r[2]) * (shape.major * r[2]) + (shape.minor * r[1]) * (shape.minor * r[1])

\* length >= extent and length > extent.  No extent exceeds the longer half axis.
Covers(shape, length, extent2) ==
    LET scaled == length * shape.rotation[3]
    IN  length >= shape.major \/ (length >= 0 /\ scaled * scaled >= extent2)
Exceeds(shape, length, extent2) ==
    LET scaled == length * shape.rotation[3]
    IN  length > shape.major \/ (length > 0 /\ scaled * scaled > extent2)

\* sponge_columns: two diameters, rounded half up, and at least 16 columns.
SpongeColumns(shape) == Max({16, (shape.ny + 5) \div 10})

\* Mutant: only the centre of the obstacle is kept out of the sponge.
PreflightAtCenter(shape) ==
    /\ shape.minor >= 12
    /\ SpongeColumns(shape) < shape.nx
    /\ CenterX(shape) < 2 * (shape.nx - SpongeColumns(shape))

\* _preflight_analytic: the minor diameter, the sponge, the clearances of the inlet, the
\* outlet and the walls, and no overlap with the sponge.
Preflight(shape) ==
    LET d == ReferenceDiameter(shape)
        right == 2 * (shape.nx - 1) - CenterX(shape)
        sponge == 2 * (shape.nx - SpongeColumns(shape))
    IN  /\ shape.minor >= 12
        /\ SpongeColumns(shape) < shape.nx
        /\ Covers(shape, CenterX(shape) - 2 * d, ExtentX2(shape))
        /\ Covers(shape, right - 4 * d, ExtentX2(shape))
        /\ Covers(shape, CenterY(shape) - d, ExtentY2(shape))
        /\ Covers(shape, 2 * (shape.ny - 1) - CenterY(shape) - d, ExtentY2(shape))
        /\ Exceeds(shape, sponge - CenterX(shape), ExtentX2(shape))

\* _ellipse_sdf_unchecked and obstacle_mask: the cells on or inside the contour.
Solid(shape, y, x) ==
    LET r == shape.rotation
        dx == 2 * x - CenterX(shape)
        dy == 2 * y - CenterY(shape)
        across == (r[1] * dx + r[2] * dy) * shape.minor
        along == (r[1] * dy - r[2] * dx) * shape.major
    IN  across * across + along * along
            <= (shape.major * shape.minor * r[3]) * (shape.major * shape.minor * r[3])

Mask(shape) ==
    LET near(center) == (center - shape.major) \div 2 - 1 .. (center + shape.major) \div 2 + 1
    IN  {cell \in near(CenterY(shape)) \X near(CenterX(shape)) : Solid(shape, cell[1], cell[2])}

-----------------------------------------------------------------------------
(* The rasterised fields.                                                  *)

Field == (0 .. FieldRows - 1) \X (0 .. FieldColumns - 1)
Interior == (1 .. FieldRows - 2) \X (0 .. FieldColumns - 1)
Neighbours(c) ==
    {<<c[1], c[2] - 1>>, <<c[1], c[2] + 1>>, <<c[1] - 1, c[2]>>, <<c[1] + 1, c[2]>>}
Around(c) == (c[1] - 1 .. c[1] + 1) \X (c[2] - 1 .. c[2] + 1)

\* What can be reached from a set of cells without leaving a room, next(c) being one step.
Flood(from, room, next(_)) ==
    LET reached[k \in 0 .. Cardinality(room)] ==
            IF k = 0 THEN from
            ELSE UNION {set \cup (room \cap UNION {next(c) : c \in set}) : set \in {reached[k - 1]}}
    IN  reached[Cardinality(room)]

\* Mutant: the search also runs along the outer rows.
ConnectsOutside(solid) ==
    LET fluid == Field \ solid
    IN  \E c \in Flood({d \in fluid : d[2] = 0}, fluid, Neighbours) : c[2] = FieldColumns - 1

\* _fluid_connects_inlet_to_outlet: the search from the first column never leaves the
\* interior rows.
Connects(solid) ==
    LET fluid == Interior \ solid
    IN  \E c \in Flood({d \in fluid : d[2] = 0}, fluid, Neighbours) : c[2] = FieldColumns - 1

\* The cells of a rectangle [left, right, bottom, top], and those on its sides.
Rectangle(r) == (r.bottom .. r.top) \X (r.left .. r.right)
Sides(r) ==
    {cell \in Rectangle(r) : cell[1] \in {r.bottom, r.top} \/ cell[2] \in {r.left, r.right}}
Inside(r) == Rectangle(r) \ Sides(r)
Fits(r) == r.left >= 1 /\ r.right < SpongeStart /\ r.bottom >= 1 /\ r.top < FieldRows - 1

NoSurface == [refused |-> TRUE]

\* Mutant: the surface lies on the outermost cells of the band.
SurfaceOnBand(sdf) ==
    LET band == {c \in Field : sdf[c] < Clearance}
        r == [left |-> Min({c[2] : c \in band}), right |-> Max({c[2] : c \in band}),
              bottom |-> Min({c[1] : c \in band}), top |-> Max({c[1] : c \in band})]
    IN  IF (\A c \in Field : sdf[c] > 0) \/ ~Fits(r) THEN NoSurface ELSE r

\* control_surface_from_sdf: one cell outside the cells within the clearance.
Surface(sdf) ==
    LET band == {c \in Field : sdf[c] < Clearance}
        r == [left |-> Min({c[2] : c \in band}) - 1, right |-> Max({c[2] : c \in band}) + 1,
              bottom |-> Min({c[1] : c \in band}) - 1, top |-> Max({c[1] : c \in band}) + 1]
    IN  IF (\A c \in Field : sdf[c] > 0) \/ ~Fits(r) THEN NoSurface ELSE r

\* What ControlSurface insists on.
IsSurface(r, sdf) ==
    /\ r.left >= 1 /\ r.left < r.right /\ r.bottom >= 1 /\ r.bottom < r.top
    /\ \A c \in Sides(r) : sdf[c] >= Clearance

Along(f(_), cells) == MapThenSumSet(f, cells)

\* field_drag_coefficient: the pressure and the momentum that cross the surface, in thirds.
FieldDrag(rho, u, v, r) ==
    LET column(x) == {c \in Rectangle(r) : c[2] = x}
        row(y) == {c \in Rectangle(r) : c[1] = y}
        pressure(c) == rho[c]
        streamwise(c) == rho[c] * u[c] * u[c]
        transverse(c) == rho[c] * u[c] * v[c]
    IN  Along(pressure, column(r.left)) - Along(pressure, column(r.right))
        + 3 * (Along(streamwise, column(r.left)) - Along(streamwise, column(r.right)))
        + 3 * (Along(transverse, row(r.bottom)) - Along(transverse, row(r.top)))

-----------------------------------------------------------------------------
(* What the geometry promises.                                             *)

\* An obstacle that passes preflight has cells, and none of them is where the streaming
\* step, the walls, the sponge or the path from inlet to outlet need fluid: the later
\* checks on the raster never refuse what the scalar checks have accepted.
PreflightIsEnough(shape) ==
    Preflight(shape) =>
        /\ Mask(shape) # {}
        /\ \A cell \in Mask(shape) :
              /\ cell[1] \in 2 .. shape.ny - 3
              /\ cell[2] \in 2 .. shape.nx - SpongeColumns(shape) - 1

\* A chain of solid cells, each touching the next, from one outer row to the other.
Dams(solid) ==
    \E c \in Flood({d \in solid : d[1] = 1}, solid, Around) : c[1] = FieldRows - 2

\* Fluid connects the inlet with the outlet unless the obstacle dams the channel.
ConnectionIsExact(solid) == Connects(solid) <=> ~Dams(solid)

\* The control surface is one, encloses the obstacle, and is the tightest of all that keep
\* the clearance; where none is selected there is none.  A uniform flow has no drag on it,
\* and a flow and its mirror image have the same.
SurfaceIsTight(sdf) ==
    LET chosen == Surface(sdf)
        band == {c \in Field : sdf[c] < Clearance}
        rectangles == {r \in [left : 1 .. FieldColumns, right : 1 .. FieldColumns, bottom : 1 .. FieldRows,
                              top : 1 .. FieldRows] : Fits(r) /\ band \subseteq Inside(r)}
        rho == [c \in Field |-> 1 + ((c[1] * c[2] + c[1]) % 3)]
        u == [c \in Field |-> c[2] + 2 * c[1]]
        v == [c \in Field |-> c[1] * c[1]]
        flat == [c \in Field |-> 2]
        flip(f, sign) ==
            [c \in Rectangle(chosen) |-> sign * f[<<chosen.bottom + chosen.top - c[1], c[2]>>]]
    IN  IF chosen = NoSurface THEN rectangles = {} \/ \A c \in Field : sdf[c] > 0
        ELSE /\ IsSurface(chosen, sdf)
             /\ {c \in Field : sdf[c] <= 0} \subseteq Inside(chosen)
             /\ \A r \in rectangles : Rectangle(chosen) \subseteq Rectangle(r)
             /\ FieldDrag(flat, flat, flat, chosen) = 0
             /\ FieldDrag(flip(rho, 1), flip(u, 1), flip(v, -1), chosen)
                   = FieldDrag(rho, u, v, chosen)
=============================================================================
